---- MODULE Spec2Model ----
(***************************************************************************)
(* Model of lsst.ts.pre_commit_conf: the hook registry                     *)
(* (pre_commit_hooks.py) and the generator of the pre-commit configuration *)
(* (pre_commit_conf_generator.py).                                         *)
(*                                                                         *)
(* Python values are modelled by their repr: "True", "False", "1", "None". *)
(* A text file is a record [exists, lines]; a line of the preference file  *)
(* `name: value` is the record [key |-> name, val |-> value] of its two    *)
(* scalars as written.  All files live in the one destination directory    *)
(* (_get_dest), which is not modelled further.                             *)
(***************************************************************************)
EXTENDS Naturals, Sequences, FiniteSets, TLC

VARIABLES
    args,               \* the types.SimpleNamespace handed to every function
    argsFrom,           \* who built args: "none", "parse_args", "create_args", "typer"
    command_line_args,  \* the command line given to parse_args
    prefFile,           \* TS_PRE_COMMIT_CONFIG_YAML in the destination
    prefOrigin,         \* how the current text of prefFile came about
    pipelineFile,       \* PRE_COMMIT_CONFIG_FILE_NAME in the destination
    called,             \* the function called (or step taken) last
    raised,             \* the exception that call ended with, or "none"
    instructions,       \* the lines carried by the FileNotFoundError message
    findings,           \* missing_hooks, incorrect_config_options, additional_hooks
    exit_messages,      \* the message of the ValueError or RuntimeError, in pieces
    edits,              \* number of modifications made to prefFile
    configFiles,        \* the hook configuration files in the destination, by name
    gitignore,          \* DOT_GITIGNORE in the destination
    ran,                \* the artifact-writing functions that have returned
    pc,                 \* the statement generate_pre_commit_conf is at
    exit_status,        \* the status the process exited with, or None
    dest0,              \* the destination as it was when the process started
    install,            \* whether `pre-commit install` has been started
    cwd,                \* the working directory of the process (os.getcwd())
    process,            \* the subprocess of the current run_pre_commit_install
    awaiting,           \* run_pre_commit_install suspended in communicate()
    metadata,           \* the PreCommitHookMetadata being constructed
    pyproject           \* pyproject.toml in the destination

vars == <<args, argsFrom, command_line_args, prefFile, prefOrigin, pipelineFile,
          called, raised, instructions, findings, exit_messages, edits,
          configFiles, gitignore, ran, pc, exit_status, dest0, install,
          cwd, process, awaiting, metadata, pyproject>>

-----------------------------------------------------------------------------
(* Python values and operators on them.                                    *)

PyTrue == "True"
PyFalse == "False"
PyOne == "1"

\* bool(v)
Truthy(v) == v \notin {"False", "None", "0", ""}

\* not v
PyNot(v) == IF Truthy(v) THEN PyFalse ELSE PyTrue

\* The characters of the strings that get sorted, in code point order.
CodePointOrder ==
    <<" ", "-", "1", "8", ":", "a", "b", "c", "e", "f", "g", "h", "i", "k",
      "l", "m", "n", "o", "p", "r", "s", "t", "u", "w", "x", "y">>

Ord(c) == CHOOSE i \in 1..Len(CodePointOrder) : CodePointOrder[i] = c

\* The characters of a string.
Chars(s) ==
    CASE s = "black" -> <<"b", "l", "a", "c", "k">>
      [] s = "check-xml" -> <<"c", "h", "e", "c", "k", "-", "x", "m", "l">>
      [] s = "check-yaml" -> <<"c", "h", "e", "c", "k", "-", "y", "a", "m", "l">>
      [] s = "clang-format" -> <<"c", "l", "a", "n", "g", "-", "f", "o", "r", "m", "a", "t">>
      [] s = "flake8" -> <<"f", "l", "a", "k", "e", "8">>
      [] s = "format-xmllint" -> <<"f", "o", "r", "m", "a", "t", "-", "x", "m", "l", "l", "i", "n", "t">>
      [] s = "isort" -> <<"i", "s", "o", "r", "t">>
      [] s = "mypy" -> <<"m", "y", "p", "y">>
      [] s = "pre-commit-hooks" -> <<"p", "r", "e", "-", "c", "o", "m", "m", "i", "t", "-", "h", "o", "o", "k", "s">>
      [] s = "ruff" -> <<"r", "u", "f", "f">>
      [] s = "towncrier" -> <<"t", "o", "w", "n", "c", "r", "i", "e", "r">>
      [] s = "test" -> <<"t", "e", "s", "t">>
      [] s = "true" -> <<"t", "r", "u", "e">>
      [] s = "false" -> <<"f", "a", "l", "s", "e">>
      [] s = "1" -> <<"1">>

\* str.__lt__: lexicographic on code points, a proper prefix is smaller.
RECURSIVE CharsLess(_, _)
CharsLess(a, b) ==
    IF b = <<>> THEN FALSE
    ELSE IF a = <<>> THEN TRUE
    ELSE IF Head(a) # Head(b) THEN Ord(Head(a)) < Ord(Head(b))
    ELSE CharsLess(Tail(a), Tail(b))

\* The text of a preference line: f"{key}: {val}".
LineChars(line) == Chars(line.key) \o <<":", " ">> \o Chars(line.val)

\* sorted() on items paired with their text: a stable insertion sort on
\* records [text |-> the characters compared, item |-> the element].
RECURSIVE Insert(_, _)
Insert(x, seq) ==
    IF seq = <<>> THEN <<x>>
    ELSE IF CharsLess(x.text, Head(seq).text) THEN <<x>> \o seq
    ELSE <<Head(seq)>> \o Insert(x, Tail(seq))

RECURSIVE SortKeyed(_)
SortKeyed(seq) ==
    IF seq = <<>> THEN <<>>
    ELSE Insert(seq[Len(seq)], SortKeyed(SubSeq(seq, 1, Len(seq) - 1)))

\* sorted(lines) for a list of preference lines.
SortedLines(lines) ==
    LET keyed == SortKeyed([i \in 1..Len(lines) |->
                              [text |-> LineChars(lines[i]), item |-> lines[i]]])
    IN [i \in 1..Len(keyed) |-> keyed[i].item]

\* sorted(names) for a list of strings.
SortedStrs(names) ==
    LET keyed == SortKeyed([i \in 1..Len(names) |->
                              [text |-> Chars(names[i]), item |-> names[i]]])
    IN [i \in 1..Len(keyed) |-> keyed[i].item]

Range(seq) == {seq[i] : i \in 1..Len(seq)}

-----------------------------------------------------------------------------
(* pre_commit_hooks.py: the registry.                                      *)

MANDATORY == "MANDATORY"
OPT_IN == "OPT_IN"
OPT_OUT == "OPT_OUT"

None == "None"

\* The keys of the registry dict, in insertion order.
RegistryNames ==
    <<"black", "clang-format", "flake8", "format-xmllint", "isort", "mypy",
      "pre-commit-hooks", "ruff", "towncrier">>

\* PreCommitHookMetadata per hook; the texts are abbreviated to their first line.
registry ==
    [hook_name \in Range(RegistryNames) |->
      CASE hook_name = "black" ->
            [pre_commit_config |-> "\n  - repo: https://github.com/psf/black",
             config_file_name |-> None, config |-> None, rule_type |-> MANDATORY]
        [] hook_name = "clang-format" ->
            [pre_commit_config |-> "\n  - repo: https://github.com/pre-commit/mirrors-clang-format",
             config_file_name |-> ".clang-format", config |-> "Language: Cpp",
             rule_type |-> OPT_IN]
        [] hook_name = "flake8" ->
            [pre_commit_config |-> "\n  - repo: https://github.com/pycqa/flake8",
             config_file_name |-> ".flake8", config |-> "[flake8]",
             rule_type |-> MANDATORY]
        [] hook_name = "format-xmllint" ->
            [pre_commit_config |-> "\n  - repo: https://github.com/lsst-ts/pre-commit-xmllint",
             config_file_name |-> None, config |-> None, rule_type |-> OPT_IN]
        [] hook_name = "isort" ->
            [pre_commit_config |-> "\n  - repo: https://github.com/pycqa/isort",
             config_file_name |-> ".isort.cfg", config |-> "[settings]",
             rule_type |-> MANDATORY]
        [] hook_name = "mypy" ->
            [pre_commit_config |-> "\n  - repo: https://github.com/pre-commit/mirrors-mypy",
             config_file_name |-> ".mypy.ini", config |-> "[mypy]",
             rule_type |-> OPT_OUT]
        [] hook_name = "pre-commit-hooks" ->
            [pre_commit_config |-> "\n  - repo: https://github.com/pre-commit/pre-commit-hooks",
             config_file_name |-> None, config |-> None, rule_type |-> MANDATORY]
        [] hook_name = "ruff" ->
            [pre_commit_config |-> "\n  - repo: https://github.com/astral-sh/ruff-pre-commit",
             config_file_name |-> ".ruff.toml", config |-> "ignore = [",
             rule_type |-> OPT_IN]
        [] hook_name = "towncrier" ->
            [pre_commit_config |-> "\n  - repo: https://github.com/twisted/towncrier",
             config_file_name |-> "towncrier.toml", config |-> "[tool.towncrier]",
             rule_type |-> OPT_IN]]

\* hook_name.replace('-', '_')
ReplaceDashes(hook_name) ==
    CASE hook_name = "clang-format" -> "clang_format"
      [] hook_name = "format-xmllint" -> "format_xmllint"
      [] hook_name = "pre-commit-hooks" -> "pre_commit_hooks"
      [] OTHER -> hook_name

\* f"{prefix}_{hook_name.replace('-', '_')}"
ArgName(prefix, hook_name) == prefix \o "_" \o ReplaceDashes(hook_name)

-----------------------------------------------------------------------------
(* types.SimpleNamespace: a function from the attribute names that are set *)
(* to their values.                                                        *)

\* getattr(args, name, default)
GetAttr(ns, name, default) == IF name \in DOMAIN ns THEN ns[name] ELSE default

\* setattr(args, name, value)
SetAttr(ns, name, value) ==
    [a \in DOMAIN ns \cup {name} |-> IF a = name THEN value ELSE ns[a]]

EmptyNamespace == [a \in {} |-> PyFalse]

\* The attribute argparse stores the flag of a hook in, None for a hook without flag.
FlagAttr(hook_name) ==
    IF registry[hook_name].rule_type = OPT_OUT THEN ArgName("no", hook_name)
    ELSE IF registry[hook_name].rule_type = OPT_IN THEN ArgName("with", hook_name)
    ELSE None

\* The option string parse_args adds for a hook, None for a hook without flag.
FlagOption(hook_name) ==
    IF registry[hook_name].rule_type = OPT_OUT THEN "--no-" \o hook_name
    ELSE IF registry[hook_name].rule_type = OPT_IN THEN "--with-" \o hook_name
    ELSE None

HookOptions == {FlagOption(h) : h \in Range(RegistryNames)} \ {None}

\* The options parse_args accepts, --dest and --skip-pre-commit-install left
\* out: the runs modelled are in the working directory and install the hooks
\* (InstallNamespaces has the namespaces with dest and skip_pre_commit_install).
Options == {"--create", "--overwrite"} \cup HookOptions

\* The namespace argparse builds: every store_true option is False unless given.
ParsedNamespace(command_line) ==
    [a \in {"create", "overwrite"}
           \cup ({FlagAttr(h) : h \in Range(RegistryNames)} \ {None}) |->
        IF a = "create" THEN (IF "--create" \in command_line THEN PyTrue ELSE PyFalse)
        ELSE IF a = "overwrite"
             THEN (IF "--overwrite" \in command_line THEN PyTrue ELSE PyFalse)
        ELSE IF \E h \in Range(RegistryNames) :
                    FlagAttr(h) = a /\ FlagOption(h) \in command_line
             THEN PyTrue ELSE PyFalse]

\* The check at the end of parse_args.
ParseArgsRaises(sn) == sn["no_mypy"] = PyTrue /\ sn["create"] = PyFalse

-----------------------------------------------------------------------------
(* Files of the destination directory.                                     *)

\* A preference file that does not exist / that holds the given lines.
NoPrefFile == [exists |-> FALSE, lines |-> <<>>]
PrefFileOf(lines) == [exists |-> TRUE, lines |-> lines]

\* A pipeline configuration file that does not exist / that holds the given text.
NoPipelineFile == [exists |-> FALSE, text |-> ""]
PipelineFileOf(text) == [exists |-> TRUE, text |-> text]

\* The document "{}": the flow-style empty mapping yaml.safe_dump writes for {}.
FlowEmptyMapping == [key |-> "{}", val |-> ""]

\* The YAML 1.1 resolution of a plain scalar, as PyYAML's safe loader does it.
ResolveScalar(val) ==
    CASE val = "true" -> PyTrue
      [] val = "false" -> PyFalse
      [] OTHER -> val

\* The representation yaml.safe_dump gives a value.
RepresentScalar(value) ==
    CASE value = PyTrue -> "true"
      [] value = PyFalse -> "false"
      [] OTHER -> value

\* A parsed document: None for an empty stream, else a dict, kept as the list
\* of its items [key, value] in insertion order.
PyNone == [isNone |-> TRUE, items |-> <<>>]
DictOf(items) == [isNone |-> FALSE, items |-> items]

Keys(config) == {config.items[i].key : i \in 1..Len(config.items)}

\* config[key]
Item(config, key) ==
    config.items[CHOOSE i \in 1..Len(config.items) : config.items[i].key = key].value

\* config[key] = value on the item list of a dict: a known key keeps its place.
PutItem(items, key, value) ==
    IF \E i \in 1..Len(items) : items[i].key = key
    THEN [i \in 1..Len(items) |->
            IF items[i].key = key THEN [key |-> key, value |-> value] ELSE items[i]]
    ELSE Append(items, [key |-> key, value |-> value])

RECURSIVE LoadItems(_)
LoadItems(lines) ==
    IF lines = <<>> THEN <<>>
    ELSE LET last == lines[Len(lines)]
         IN PutItem(LoadItems(SubSeq(lines, 1, Len(lines) - 1)),
                    last.key, ResolveScalar(last.val))

\* yaml.safe_load(f)
safe_load(lines) ==
    IF lines = <<>> THEN PyNone
    ELSE IF lines = <<FlowEmptyMapping>> THEN DictOf(<<>>)
    ELSE DictOf(LoadItems(lines))

\* yaml.safe_dump(config): block style, keys sorted.
safe_dump(config) ==
    IF config.items = <<>> THEN <<FlowEmptyMapping>>
    ELSE LET keyed == SortKeyed([i \in 1..Len(config.items) |->
                  [text |-> Chars(config.items[i].key), item |-> config.items[i]]])
         IN [i \in 1..Len(keyed) |->
               [key |-> keyed[i].item.key, val |-> RepresentScalar(keyed[i].item.value)]]

-----------------------------------------------------------------------------
(* _create_config_file and _print_instructions_and_exit.                   *)

Line(key, val) == [key |-> key, val |-> val]

\* CreateConfigHookLines without the special case of the pseudo-entry.
CreateConfigHookLinesNoPseudo(ns, hook_name) ==
    LET hook == registry[hook_name]
    IN IF hook.rule_type = MANDATORY THEN <<Line(hook_name, "true")>>
       ELSE LET hook_arg_name_prefix ==
                    IF hook.rule_type = OPT_OUT THEN "no" ELSE "with"
                got == GetAttr(ns, ArgName(hook_arg_name_prefix, hook_name),
                               IF hook.rule_type = OPT_IN THEN PyTrue ELSE PyFalse)
                arg == IF hook.rule_type = OPT_IN THEN PyNot(got) ELSE got
            IN <<Line(hook_name, IF arg = PyFalse THEN "true" ELSE "false")>>

\* CreateConfigHookLines without the flip of the opt-in argument.
CreateConfigHookLinesNoFlip(ns, hook_name) ==
    IF hook_name = "pre-commit-hooks"
    THEN <<Line("check-yaml", "true"), Line("check-xml", "true")>>
    ELSE LET hook == registry[hook_name]
         IN IF hook.rule_type = MANDATORY THEN <<Line(hook_name, "true")>>
            ELSE LET hook_arg_name_prefix ==
                         IF hook.rule_type = OPT_OUT THEN "no" ELSE "with"
                     arg == GetAttr(ns, ArgName(hook_arg_name_prefix, hook_name),
                                    PyFalse)
                 IN <<Line(hook_name, IF arg = PyFalse THEN "true" ELSE "false")>>

\* The lines one iteration of the loop of _create_config_file appends.
CreateConfigHookLines(ns, hook_name) ==
    IF hook_name = "pre-commit-hooks"
    THEN <<Line("check-yaml", "true"), Line("check-xml", "true")>>
    ELSE LET hook == registry[hook_name]
         IN IF hook.rule_type = MANDATORY THEN <<Line(hook_name, "true")>>
            ELSE LET hook_arg_name_prefix ==
                         IF hook.rule_type = OPT_OUT THEN "no" ELSE "with"
                     got == GetAttr(ns, ArgName(hook_arg_name_prefix, hook_name),
                                    IF hook.rule_type = OPT_IN THEN PyTrue ELSE PyFalse)
                     arg == IF hook.rule_type = OPT_IN THEN PyNot(got) ELSE got
                 IN <<Line(hook_name, IF arg = PyFalse THEN "true" ELSE "false")>>

RECURSIVE CreateConfigLoop(_, _)
CreateConfigLoop(ns, names) ==
    IF names = <<>> THEN <<>>
    ELSE CreateConfigHookLines(ns, Head(names)) \o CreateConfigLoop(ns, Tail(names))

\* CreateConfigFileLines without lines = sorted(lines).
CreateConfigFileLinesUnsorted(ns) == CreateConfigLoop(ns, RegistryNames)

\* The lines _create_config_file hands to _write_ts_pre_commit_config_yaml.
CreateConfigFileLines(ns) == SortedLines(CreateConfigLoop(ns, RegistryNames))

\* InstructionHookLines without the special case of the pseudo-entry.
InstructionHookLinesNoPseudo(ns, hook_name) ==
    LET hook == registry[hook_name]
    IN IF hook.rule_type = MANDATORY THEN <<Line(hook_name, "true")>>
       ELSE IF hook.rule_type = OPT_OUT
       THEN LET arg == GetAttr(ns, ArgName("no", hook_name), PyFalse)
            IN <<Line(hook_name, IF Truthy(arg) THEN "false" ELSE "true")>>
       ELSE LET arg == GetAttr(ns, ArgName("with", hook_name), PyFalse)
            IN <<Line(hook_name, IF Truthy(arg) THEN "true" ELSE "false")>>

\* The lines one iteration of the loop of _print_instructions_and_exit adds.
InstructionHookLines(ns, hook_name) ==
    IF hook_name = "pre-commit-hooks"
    THEN <<Line("check-yaml", "true"), Line("check-xml", "true")>>
    ELSE LET hook == registry[hook_name]
         IN IF hook.rule_type = MANDATORY THEN <<Line(hook_name, "true")>>
            ELSE IF hook.rule_type = OPT_OUT
            THEN LET arg == GetAttr(ns, ArgName("no", hook_name), PyFalse)
                 IN <<Line(hook_name, IF Truthy(arg) THEN "false" ELSE "true")>>
            ELSE LET arg == GetAttr(ns, ArgName("with", hook_name), PyFalse)
                 IN <<Line(hook_name, IF Truthy(arg) THEN "true" ELSE "false")>>

RECURSIVE InstructionLoop(_, _)
InstructionLoop(ns, names) ==
    IF names = <<>> THEN <<>>
    ELSE InstructionHookLines(ns, Head(names)) \o InstructionLoop(ns, Tail(names))

\* The document lines of the FileNotFoundError message.
InstructionLines(ns) == InstructionLoop(ns, RegistryNames)

-----------------------------------------------------------------------------
(* validate_config_file_contents and its three checks.                     *)

\* hook_names: the registry names with the pseudo-entry replaced by its checks.
RECURSIVE HookNamesLoop(_)
HookNamesLoop(names) ==
    IF names = <<>> THEN <<>>
    ELSE (IF Head(names) = "pre-commit-hooks" THEN <<"check-yaml", "check-xml">>
          ELSE <<Head(names)>>) \o HookNamesLoop(Tail(names))

HookNames == HookNamesLoop(RegistryNames)

\* One iteration of the loop of _check_missing_hooks.
MissingHook(config, hook_name) ==
    LET found == \E i \in 1..Len(config.items) : config.items[i].key = hook_name
    IN IF hook_name \notin DOMAIN registry THEN FALSE
       ELSE IF registry[hook_name].rule_type # MANDATORY THEN FALSE
       ELSE ~found

\* _check_missing_hooks with a break at the end of the outer loop body: only
\* the first hook name is checked.
_check_missing_hooks_break(config, hook_names) ==
    IF hook_names = <<>> THEN <<>>
    ELSE IF MissingHook(config, Head(hook_names)) THEN <<Head(hook_names)>> ELSE <<>>

RECURSIVE _check_missing_hooks(_, _)
_check_missing_hooks(config, hook_names) ==
    IF hook_names = <<>> THEN <<>>
    ELSE (IF MissingHook(config, Head(hook_names)) THEN <<Head(hook_names)>> ELSE <<>>)
         \o _check_missing_hooks(config, Tail(hook_names))

\* One iteration of the loop of _check_incorrect_config_options.
IncorrectOption(config, hook_name) ==
    IF hook_name \notin DOMAIN registry THEN FALSE
    ELSE IF registry[hook_name].rule_type # MANDATORY THEN FALSE
    ELSE ~\E i \in 1..Len(config.items) :
            config.items[i].key = hook_name /\ config.items[i].value = PyTrue

RECURSIVE _check_incorrect_config_options(_, _)
_check_incorrect_config_options(config, hook_names) ==
    IF hook_names = <<>> THEN <<>>
    ELSE (IF IncorrectOption(config, Head(hook_names)) THEN <<Head(hook_names)>>
          ELSE <<>>)
         \o _check_incorrect_config_options(config, Tail(hook_names))

\* AdditionalHook comparing with the registry names instead of hook_names.
AdditionalHookRegistry(option, hook_names) == option \notin DOMAIN registry

\* One iteration of the outer loop of _check_additional_hooks.
AdditionalHook(option, hook_names) ==
    ~\E j \in 1..Len(hook_names) : option = hook_names[j]

RECURSIVE AdditionalLoop(_, _)
AdditionalLoop(items, hook_names) ==
    IF items = <<>> THEN <<>>
    ELSE (IF AdditionalHook(Head(items).key, hook_names) THEN <<Head(items).key>>
          ELSE <<>>)
         \o AdditionalLoop(Tail(items), hook_names)

_check_additional_hooks(config, hook_names) == AdditionalLoop(config.items, hook_names)

NoFindings ==
    [missing_hooks |-> <<>>, incorrect_config_options |-> <<>>,
     additional_hooks |-> <<>>]

\* The three lists validate_config_file_contents computes for a dict.
Findings(config) ==
    [missing_hooks |-> _check_missing_hooks(config, HookNames),
     incorrect_config_options |-> _check_incorrect_config_options(config, HookNames),
     additional_hooks |-> _check_additional_hooks(config, HookNames)]

MissingText == "The following pre-commit hooks are missing: "
IncorrectText == "The following mandatory pre-commit hooks are not set to 'true': "
AdditionalText == "Please remove the following additional lines: "

\* ExitMessages failing fast: only the first non-empty finding is reported.
ExitMessagesFailFast(f) ==
    IF f.missing_hooks # <<>>
    THEN <<[text |-> MissingText, hooks |-> SortedStrs(f.missing_hooks)]>>
    ELSE IF f.incorrect_config_options # <<>>
    THEN <<[text |-> IncorrectText, hooks |-> SortedStrs(f.incorrect_config_options)]>>
    ELSE IF f.additional_hooks # <<>>
    THEN <<[text |-> AdditionalText, hooks |-> f.additional_hooks]>>
    ELSE <<>>

\* exit_messages as built from the three lists.
ExitMessages(f) ==
    (IF f.missing_hooks # <<>>
     THEN <<[text |-> MissingText, hooks |-> SortedStrs(f.missing_hooks)]>>
     ELSE <<>>)
    \o (IF f.incorrect_config_options # <<>>
        THEN <<[text |-> IncorrectText,
                hooks |-> SortedStrs(f.incorrect_config_options)]>>
        ELSE <<>>)
    \o (IF f.additional_hooks # <<>>
        THEN <<[text |-> AdditionalText, hooks |-> f.additional_hooks]>>
        ELSE <<>>)

\* The final test of validate_config_file_contents.
ValidateRaises(f) ==
    f.missing_hooks # <<>> \/ f.incorrect_config_options # <<>>
        \/ f.additional_hooks # <<>>

-----------------------------------------------------------------------------
(* generate_pre_commit_conf_file.                                          *)

\* PipelineFragment with the getattr default of _create_config_file, which is
\* True for an opt-in hook.
PipelineFragmentCreateDefault(ns, hook_name) ==
    LET hook == registry[hook_name]
    IN IF hook.rule_type = MANDATORY THEN hook.pre_commit_config
       ELSE IF hook.rule_type = OPT_OUT
       THEN LET arg == GetAttr(ns, ArgName("no", hook_name), PyFalse)
            IN IF ~Truthy(arg) THEN hook.pre_commit_config ELSE ""
       ELSE LET arg == GetAttr(ns, ArgName("with", hook_name), PyTrue)
            IN IF Truthy(arg) THEN hook.pre_commit_config ELSE ""

\* What one iteration of the loop appends to pre_commit_config.
PipelineFragment(ns, hook_name) ==
    LET hook == registry[hook_name]
    IN IF hook.rule_type = MANDATORY THEN hook.pre_commit_config
       ELSE IF hook.rule_type = OPT_OUT
       THEN LET arg == GetAttr(ns, ArgName("no", hook_name), PyFalse)
            IN IF ~Truthy(arg) THEN hook.pre_commit_config ELSE ""
       ELSE LET arg == GetAttr(ns, ArgName("with", hook_name), PyFalse)
            IN IF Truthy(arg) THEN hook.pre_commit_config ELSE ""

RECURSIVE PipelineLoop(_, _, _)
PipelineLoop(pre_commit_config, ns, names) ==
    IF names = <<>> THEN pre_commit_config
    ELSE PipelineLoop(pre_commit_config \o PipelineFragment(ns, Head(names)),
                      ns, Tail(names))

\* The text generate_pre_commit_conf_file composes.
PreCommitConfig(ns) == PipelineLoop("repos:", ns, RegistryNames)

\* overwrite = True if "overwrite" in vars(args) and args.overwrite else False
Overwrite(ns) == "overwrite" \in DOMAIN ns /\ Truthy(ns["overwrite"])

\* _write_pre_commit_config_file
_write_pre_commit_config_file(overwrite, pre_commit_config, file) ==
    IF file.exists /\ ~overwrite THEN file
    ELSE PipelineFileOf(pre_commit_config)

-----------------------------------------------------------------------------
(* update_args_from_config_file.                                           *)

\* config.get(key, default)
Get(config, key, default) ==
    IF key \in Keys(config) THEN Item(config, key) ELSE default

\* The loop's turn without the `not` of the OPT_OUT branch.
UpdateArgNoNegation(ns, config, hook_name) ==
    IF registry[hook_name].rule_type = OPT_OUT
    THEN SetAttr(ns, ArgName("no", hook_name), Get(config, hook_name, PyTrue))
    ELSE IF registry[hook_name].rule_type = OPT_IN
    THEN SetAttr(ns, ArgName("with", hook_name), Get(config, hook_name, PyFalse))
    ELSE ns

\* One turn of the loop over the registry: the flag of one hook is set from
\* the document; a MANDATORY hook has no flag.
UpdateArg(ns, config, hook_name) ==
    IF registry[hook_name].rule_type = OPT_OUT
    THEN SetAttr(ns, ArgName("no", hook_name), PyNot(Get(config, hook_name, PyTrue)))
    ELSE IF registry[hook_name].rule_type = OPT_IN
    THEN SetAttr(ns, ArgName("with", hook_name), Get(config, hook_name, PyFalse))
    ELSE ns

RECURSIVE UpdateArgsLoop(_, _, _)
UpdateArgsLoop(ns, config, names) ==
    IF names = <<>> THEN ns
    ELSE UpdateArgsLoop(UpdateArg(ns, config, Head(names)), config, Tail(names))

\* The args update_args_from_config_file leaves, given the parsed document.
update_args_from_config_file(ns, config) == UpdateArgsLoop(ns, config, RegistryNames)

-----------------------------------------------------------------------------
(* create_config_files.                                                    *)

\* A hook configuration file that does not exist / that holds the given text.
NoConfigFile == [exists |-> FALSE, text |-> ""]
ConfigFileOf(text) == [exists |-> TRUE, text |-> text]

\* The names of the configuration files the registry knows.
ConfigFileNames == {registry[h].config_file_name : h \in Range(RegistryNames)} \ {None}

_write_mandatory(hook, file) == ConfigFileOf(hook.config)

\* The OPT_OUT branch without the test of the flag.
_write_opt_in_always(ns, hook_name, hook, file) == ConfigFileOf(hook.config)

\* Called for the OPT_OUT hooks.
_write_opt_in(ns, hook_name, hook, file) ==
    IF ~Truthy(GetAttr(ns, ArgName("no", hook_name), PyFalse))
    THEN ConfigFileOf(hook.config)
    ELSE file

\* Called for the OPT_IN hooks.
_write_opt_out(ns, hook_name, hook, file) ==
    IF Truthy(GetAttr(ns, ArgName("with", hook_name), PyFalse))
    THEN ConfigFileOf(hook.config)
    ELSE file

\* The loop's turn without the test `exists() and not overwrite`.
CreateConfigFileAlways(ns, files, hook_name) ==
    LET hook == registry[hook_name]
        name == hook.config_file_name
    IN IF name = None THEN files
       ELSE [files EXCEPT ![name] =
               IF hook.rule_type = MANDATORY THEN _write_mandatory(hook, @)
               ELSE IF hook.rule_type = OPT_OUT
                    THEN _write_opt_in(ns, hook_name, hook, @)
               ELSE _write_opt_out(ns, hook_name, hook, @)]

\* One turn of the loop of create_config_files: the file of one hook.
CreateConfigFile(ns, files, hook_name) ==
    LET hook == registry[hook_name]
        name == hook.config_file_name
    IN IF name = None THEN files
       ELSE IF files[name].exists /\ ~Overwrite(ns) THEN files
       ELSE [files EXCEPT ![name] =
               IF hook.rule_type = MANDATORY THEN _write_mandatory(hook, @)
               ELSE IF hook.rule_type = OPT_OUT
                    THEN _write_opt_in(ns, hook_name, hook, @)
               ELSE _write_opt_out(ns, hook_name, hook, @)]

RECURSIVE CreateConfigFilesLoop(_, _, _)
CreateConfigFilesLoop(ns, files, names) ==
    IF names = <<>> THEN files
    ELSE CreateConfigFilesLoop(ns, CreateConfigFile(ns, files, Head(names)), Tail(names))

\* The hook configuration files create_config_files leaves.
create_config_files(ns, files) == CreateConfigFilesLoop(ns, files, RegistryNames)

-----------------------------------------------------------------------------
(* update_dot_gitignore.                                                   *)

(* The contents of .gitignore are a sequence of pieces of text: "\n", a     *)
(* file name the generator knows, or a piece of other text.  No file name   *)
(* occurs inside another or across two pieces, so `name in contents` is     *)
(* membership among the pieces.                                             *)
NoGitignore == [exists |-> FALSE, contents |-> <<>>]
GitignoreOf(contents) == [exists |-> TRUE, contents |-> contents]

PRE_COMMIT_CONFIG_FILE_NAME == ".pre-commit-config.yaml"

\* name in dot_gitignore_contents
In(name, contents) == \E i \in 1..Len(contents) : contents[i] = name

\* No newline is written first.
GitignoreNewlineNever(contents) == <<>>

\* The newline written first when the contents do not end in one.
GitignoreNewline(contents) ==
    IF Len(contents) > 0 /\ contents[Len(contents)] # "\n" THEN <<"\n">> ELSE <<>>

\* The line written for the pipeline configuration file.
GitignorePipelineEntry(contents) ==
    IF ~In(PRE_COMMIT_CONFIG_FILE_NAME, contents)
    THEN <<PRE_COMMIT_CONFIG_FILE_NAME, "\n">> ELSE <<>>

\* The line of a hook written without looking at the contents.
GitignoreHookEntryAlways(contents, hook_name) ==
    LET hook == registry[hook_name]
    IN IF hook.config_file_name # None
       THEN <<hook.config_file_name, "\n">> ELSE <<>>

\* The line written for one hook of the registry.
GitignoreHookEntry(contents, hook_name) ==
    LET hook == registry[hook_name]
    IN IF hook.config_file_name # None /\ ~In(hook.config_file_name, contents)
       THEN <<hook.config_file_name, "\n">> ELSE <<>>

RECURSIVE GitignoreHookLoop(_, _)
GitignoreHookLoop(contents, names) ==
    IF names = <<>> THEN <<>>
    ELSE GitignoreHookEntry(contents, Head(names))
             \o GitignoreHookLoop(contents, Tail(names))

\* The .gitignore update_dot_gitignore leaves: touched if absent, then appended to.
update_dot_gitignore(file) ==
    LET dot_gitignore_contents == file.contents
    IN GitignoreOf(dot_gitignore_contents
                       \o GitignoreNewline(dot_gitignore_contents)
                       \o GitignorePipelineEntry(dot_gitignore_contents)
                       \o GitignoreHookLoop(dot_gitignore_contents, RegistryNames))

-----------------------------------------------------------------------------
(* Inputs.                                                                 *)

\* Number of modifications a test makes to the preference file.
MaxEdits == 2

\* The text of a pipeline configuration file left by an earlier run.
ExistingPipelineText == "repos: []"

\* A preference file that sets every hook to false, the mandatory ones included.
AllFalseLines == [i \in 1..Len(HookNames) |-> Line(HookNames[i], "false")]

\* The preference file before the run: none, an empty one, or the one above.
InitialPrefFiles == {NoPrefFile, PrefFileOf(<<>>), PrefFileOf(AllFalseLines)}

\* The keys and values a test sets in the parsed preference document
\* (config[key] = value); "test" is no hook at all.
ModKeys == {"black", "isort", "mypy", "ruff", "check-yaml", "pre-commit-hooks", "test"}
ModValues == {PyTrue, PyFalse, PyOne}

\* The args of the tests that modify the preference file:
\* create_args(dest=tmpdirname, create=True, no_mypy=False).
EditArgs == [a \in {"create", "no_mypy"} |-> IF a = "create" THEN PyTrue ELSE PyFalse]

\* The attributes a test may or may not set with create_args.
OptionalAttrs == {"overwrite"} \cup ({FlagAttr(h) : h \in Range(RegistryNames)} \ {None})

\* The namespaces create_args builds: create is always given, the others may be absent.
KwargsNamespaces ==
    UNION {[D \cup {"create"} -> {PyTrue, PyFalse}] : D \in SUBSET OptionalAttrs}

\* The namespaces of the tests of the artifact writers: no attribute is required.
ArtifactNamespaces == UNION {[D -> {PyTrue, PyFalse}] : D \in SUBSET OptionalAttrs}

\* No hook configuration file in the destination.
NoConfigFiles == [name \in ConfigFileNames |-> NoConfigFile]

\* A hook configuration file left by an earlier run and edited since: the
\* registry's text with an extra line.
ExistingConfigFile(name) ==
    LET hook_name == CHOOSE h \in Range(RegistryNames) : registry[h].config_file_name = name
    IN ConfigFileOf(registry[hook_name].config \o "test = true")

\* The hook configuration files of a destination where those named exist.
ConfigFilesOf(names) ==
    [name \in ConfigFileNames |->
        IF name \in names THEN ExistingConfigFile(name) ELSE NoConfigFile]

\* The destination directory: its four kinds of file.
DestinationOf(pref, pipeline, files, ignore) ==
    [prefFile |-> pref, pipelineFile |-> pipeline, configFiles |-> files,
     gitignore |-> ignore]

Destination == DestinationOf(prefFile, pipelineFile, configFiles, gitignore)

\* The destinations the artifact writers start from: a fresh one, and ones
\* where some or all of the files exist; .gitignore is absent, empty, ends
\* with or without a newline, and holds some of the names, one inside a line.
InitialArtifacts == {
    DestinationOf(NoPrefFile, NoPipelineFile, NoConfigFiles, NoGitignore),
    DestinationOf(NoPrefFile, PipelineFileOf(ExistingPipelineText),
                  ConfigFilesOf({".flake8"}), GitignoreOf(<<"*.pyc">>)),
    DestinationOf(NoPrefFile, NoPipelineFile,
                  ConfigFilesOf({".flake8", ".mypy.ini", ".ruff.toml"}),
                  GitignoreOf(<<>>)),
    DestinationOf(NoPrefFile, PipelineFileOf(ExistingPipelineText),
                  ConfigFilesOf(ConfigFileNames),
                  GitignoreOf(<<".pre-commit-config.yaml", "\n", ".mypy.ini">>)),
    DestinationOf(NoPrefFile, NoPipelineFile, ConfigFilesOf({".clang-format", ".isort.cfg"}),
                  GitignoreOf(<<"*.pyc", "\n", "old", ".flake8", ".bak">>)),
    DestinationOf(NoPrefFile, PipelineFileOf(ExistingPipelineText), NoConfigFiles,
                  GitignoreOf(<<".pre-commit-config.yaml", "\n", ".clang-format", "\n",
                                ".flake8", "\n", ".isort.cfg", "\n", ".mypy.ini", "\n",
                                ".ruff.toml", "\n", "towncrier.toml">>))}

\* The names of the artifact writers.
ArtifactWriters ==
    {"generate_pre_commit_conf_file", "create_config_files", "update_dot_gitignore"}

\* How the text of the preference file came about.
Origin(how, op, key, value, fromValid) ==
    [how |-> how, op |-> op, key |-> key, value |-> value, fromValid |-> fromValid]

InitialOrigin == Origin("initial", "none", "", "", FALSE)

-----------------------------------------------------------------------------
(* The state after construction and the operations.                        *)

\* The directory the process is started in, and a destination other than it.
OriginalCwd == "/home/user"
DestDir == "/home/user/repo"

\* No subprocess has been created; run_pre_commit_install is not suspended.
NoProcess == [state |-> "none", starts |-> 0, cwd |-> None, returncode |-> None,
              stdout |-> <<>>]
NotAwaiting == [active |-> FALSE, cwd |-> None]

\* No PreCommitHookMetadata is being constructed; no pyproject.toml.
NoMetadata == [state |-> "none"]
NoPyproject == [exists |-> FALSE, hasTool |-> FALSE, tool |-> {}]

\* No run of generate_pre_commit_conf is under way and no artifact writer has
\* been called: the state the tests of the single functions start from.
NotStarted ==
    /\ ran = {}
    /\ pc = "none"
    /\ exit_status = None
    /\ dest0 = Destination
    /\ install = FALSE
    /\ cwd = OriginalCwd
    /\ process = NoProcess
    /\ awaiting = NotAwaiting
    /\ metadata = NoMetadata
    /\ pyproject = NoPyproject

\* A step that starts no process, constructs no hook metadata and leaves
\* pyproject.toml alone.
NoProcessStep == UNCHANGED <<install, cwd, process, awaiting, metadata, pyproject>>

\* A step that is not one of a run of generate_pre_commit_conf.
NoRun == UNCHANGED <<pc, exit_status, dest0>> /\ NoProcessStep

\* A step that writes no hook configuration file and no .gitignore.
NoArtifact == UNCHANGED <<configFiles, gitignore, ran>>

Init ==
    /\ args = EmptyNamespace
    /\ argsFrom = "none"
    /\ command_line_args = {}
    /\ prefFile \in InitialPrefFiles
    /\ prefOrigin = InitialOrigin
    /\ pipelineFile \in {NoPipelineFile, PipelineFileOf(ExistingPipelineText)}
    /\ called = "none"
    /\ raised = "none"
    /\ instructions = <<>>
    /\ findings = NoFindings
    /\ exit_messages = <<>>
    /\ edits = 0
    /\ configFiles = NoConfigFiles
    /\ gitignore = NoGitignore
    /\ NotStarted

\* parse_args(command_line_args)
ParseArgs ==
    /\ argsFrom = "none"
    /\ called = "none"
    /\ \E command_line \in SUBSET Options :
        LET sn == ParsedNamespace(command_line)
        IN /\ command_line_args' = command_line
           /\ called' = "parse_args"
           /\ IF ParseArgsRaises(sn)
              THEN /\ raised' = "ValueError"
                   /\ UNCHANGED <<args, argsFrom>>
              ELSE /\ raised' = "none"
                   /\ args' = sn
                   /\ argsFrom' = "parse_args"
    /\ UNCHANGED <<prefFile, prefOrigin, pipelineFile, instructions, findings,
                   exit_messages, edits>>

\* create_args(**kwargs) of the test case
CreateArgs ==
    /\ argsFrom = "none"
    /\ called = "none"
    /\ \E kwargs \in KwargsNamespaces :
        /\ args' = kwargs
        /\ argsFrom' = "create_args"
    /\ UNCHANGED <<command_line_args, prefFile, prefOrigin, pipelineFile, called,
                   raised, instructions, findings, exit_messages, edits>>

\* create_or_report_missing_config_file(args)
CreateOrReportMissingConfigFile ==
    /\ argsFrom # "none"
    /\ called' = "create_or_report_missing_config_file"
    /\ IF ~prefFile.exists
       THEN IF args["create"] = PyTrue
            THEN /\ prefFile' = PrefFileOf(CreateConfigFileLines(args))
                 /\ prefOrigin' = Origin("created", "none", "", "", FALSE)
                 /\ raised' = "none"
                 /\ instructions' = <<>>
            ELSE /\ raised' = "FileNotFoundError"
                 /\ instructions' = InstructionLines(args)
                 /\ UNCHANGED <<prefFile, prefOrigin>>
       ELSE /\ raised' = IF args["create"] = PyTrue THEN "SystemExit" ELSE "none"
            /\ instructions' = <<>>
            /\ UNCHANGED <<prefFile, prefOrigin>>
    /\ findings' = NoFindings
    /\ exit_messages' = <<>>
    /\ UNCHANGED <<args, argsFrom, command_line_args, pipelineFile, edits>>

\* The user follows the FileNotFoundError message: "Create one by copying and
\* pasting the following lines".
PasteInstructions ==
    /\ called = "create_or_report_missing_config_file"
    /\ raised = "FileNotFoundError"
    /\ ~prefFile.exists
    /\ prefFile' = PrefFileOf(instructions)
    /\ prefOrigin' = Origin("pasted", "none", "", "", FALSE)
    /\ called' = "paste"
    /\ raised' = "none"
    /\ instructions' = <<>>
    /\ UNCHANGED <<args, argsFrom, command_line_args, pipelineFile, findings,
                   exit_messages, edits>>

\* validate_config_file_contents(args)
ValidateConfigFileContents ==
    /\ argsFrom # "none"
    /\ called' = "validate_config_file_contents"
    /\ instructions' = <<>>
    /\ IF ~prefFile.exists
       THEN /\ raised' = "FileNotFoundError"
            /\ findings' = NoFindings
            /\ exit_messages' = <<>>
       ELSE LET config == safe_load(prefFile.lines)
            IN IF config.isNone
               THEN /\ raised' = "TypeError"
                    /\ findings' = NoFindings
                    /\ exit_messages' = <<>>
               ELSE /\ findings' = Findings(config)
                    /\ exit_messages' = ExitMessages(Findings(config))
                    /\ raised' = IF ValidateRaises(Findings(config))
                                 THEN "ValueError" ELSE "none"
    /\ UNCHANGED <<args, argsFrom, command_line_args, prefFile, prefOrigin,
                   pipelineFile, edits>>

\* generate_pre_commit_conf_file(args)
GeneratePreCommitConfFile ==
    /\ argsFrom # "none"
    /\ called' = "generate_pre_commit_conf_file"
    /\ raised' = "none"
    /\ pipelineFile' = _write_pre_commit_config_file(
                           Overwrite(args), PreCommitConfig(args), pipelineFile)
    /\ instructions' = <<>>
    /\ findings' = NoFindings
    /\ exit_messages' = <<>>
    /\ UNCHANGED <<args, argsFrom, command_line_args, prefFile, prefOrigin, edits>>

Next ==
    \/ ParseArgs /\ NoArtifact /\ NoRun
    \/ CreateArgs /\ NoArtifact /\ NoRun
    \/ CreateOrReportMissingConfigFile /\ NoArtifact /\ NoRun
    \/ PasteInstructions /\ NoArtifact /\ NoRun
    \/ ValidateConfigFileContents /\ NoArtifact /\ NoRun
    \/ GeneratePreCommitConfFile /\ NoArtifact /\ NoRun

Spec == Init /\ [][Next]_vars

-----------------------------------------------------------------------------
(* The tests that modify the preference file between validations.          *)

\* config.pop(key) on the item list of a dict.
PopItem(items, key) == SelectSeq(items, LAMBDA item : item.key # key)

\* Read the file with yaml.safe_load, change one key, write yaml.safe_dump.
ModifyConfigFile ==
    /\ argsFrom # "none"
    /\ prefFile.exists
    /\ edits < MaxEdits
    /\ LET config == safe_load(prefFile.lines)
           valid == called = "validate_config_file_contents" /\ raised = "none"
       IN /\ ~config.isNone
          /\ \/ \E key \in Keys(config) :
                  /\ prefFile' = PrefFileOf(safe_dump(DictOf(PopItem(config.items, key))))
                  /\ prefOrigin' = Origin("modified", "pop", key, "", valid)
             \/ \E key \in ModKeys, value \in ModValues :
                  /\ prefFile' = PrefFileOf(
                                     safe_dump(DictOf(PutItem(config.items, key, value))))
                  /\ prefOrigin' = Origin("modified", "set", key, value, valid)
    /\ edits' = edits + 1
    /\ called' = "modify"
    /\ raised' = "none"
    /\ instructions' = <<>>
    /\ findings' = NoFindings
    /\ exit_messages' = <<>>
    /\ UNCHANGED <<args, argsFrom, command_line_args, pipelineFile>>

InitEdit ==
    /\ args = EditArgs
    /\ argsFrom = "create_args"
    /\ command_line_args = {}
    /\ prefFile = NoPrefFile
    /\ prefOrigin = InitialOrigin
    /\ pipelineFile = NoPipelineFile
    /\ called = "none"
    /\ raised = "none"
    /\ instructions = <<>>
    /\ findings = NoFindings
    /\ exit_messages = <<>>
    /\ edits = 0
    /\ configFiles = NoConfigFiles
    /\ gitignore = NoGitignore
    /\ NotStarted

NextEdit ==
    \/ CreateOrReportMissingConfigFile /\ NoArtifact /\ NoRun
    \/ ValidateConfigFileContents /\ NoArtifact /\ NoRun
    \/ ModifyConfigFile /\ NoArtifact /\ NoRun

SpecEdit == InitEdit /\ [][NextEdit]_vars

-----------------------------------------------------------------------------
(* The tests that load the preference file into args.                      *)

\* update_args_from_config_file(args)
UpdateArgsFromConfigFile ==
    /\ argsFrom # "none"
    /\ called' = "update_args_from_config_file"
    /\ IF ~prefFile.exists
       THEN /\ raised' = "FileNotFoundError"
            /\ UNCHANGED args
       ELSE LET config == safe_load(prefFile.lines)
            IN IF config.isNone
               THEN /\ raised' = "AttributeError"
                    /\ UNCHANGED args
               ELSE /\ raised' = "none"
                    /\ args' = update_args_from_config_file(args, config)
    /\ instructions' = <<>>
    /\ findings' = NoFindings
    /\ exit_messages' = <<>>
    /\ UNCHANGED <<argsFrom, command_line_args, prefFile, prefOrigin, pipelineFile,
                   edits>>

NextLoad ==
    \/ CreateOrReportMissingConfigFile /\ NoArtifact /\ NoRun
    \/ ModifyConfigFile /\ NoArtifact /\ NoRun
    \/ UpdateArgsFromConfigFile /\ NoArtifact /\ NoRun

SpecLoad == InitEdit /\ [][NextLoad]_vars

\* The round trip of test_update_args_from_config_file: args from create_args,
\* the preference file created from them, then loaded back.
NextRoundTrip ==
    \/ CreateArgs /\ NoArtifact /\ NoRun
    \/ CreateOrReportMissingConfigFile /\ NoArtifact /\ NoRun
    \/ UpdateArgsFromConfigFile /\ NoArtifact /\ NoRun

SpecRoundTrip == Init /\ [][NextRoundTrip]_vars

-----------------------------------------------------------------------------
(* The artifact writers, called one by one as the tests do.                *)

\* create_config_files(args)
CreateConfigFiles ==
    /\ argsFrom # "none"
    /\ called' = "create_config_files"
    /\ raised' = "none"
    /\ configFiles' = create_config_files(args, configFiles)
    /\ instructions' = <<>>
    /\ findings' = NoFindings
    /\ exit_messages' = <<>>
    /\ UNCHANGED <<args, argsFrom, command_line_args, prefFile, prefOrigin,
                   pipelineFile, edits, gitignore>>

\* update_dot_gitignore(args)
UpdateDotGitignore ==
    /\ argsFrom # "none"
    /\ called' = "update_dot_gitignore"
    /\ raised' = "none"
    /\ gitignore' = update_dot_gitignore(gitignore)
    /\ instructions' = <<>>
    /\ findings' = NoFindings
    /\ exit_messages' = <<>>
    /\ UNCHANGED <<args, argsFrom, command_line_args, prefFile, prefOrigin,
                   pipelineFile, edits, configFiles>>

\* The writer has returned.
Ran(writer) == ran' = ran \cup {writer}

InitArtifacts ==
    /\ args \in ArtifactNamespaces
    /\ argsFrom = "create_args"
    /\ command_line_args = {}
    /\ \E d \in InitialArtifacts :
        /\ prefFile = d.prefFile
        /\ pipelineFile = d.pipelineFile
        /\ configFiles = d.configFiles
        /\ gitignore = d.gitignore
    /\ prefOrigin = InitialOrigin
    /\ called = "none"
    /\ raised = "none"
    /\ instructions = <<>>
    /\ findings = NoFindings
    /\ exit_messages = <<>>
    /\ edits = 0
    /\ NotStarted

NextArtifacts ==
    \/ /\ GeneratePreCommitConfFile
       /\ UNCHANGED <<configFiles, gitignore>>
       /\ Ran("generate_pre_commit_conf_file")
       /\ NoRun
    \/ CreateConfigFiles /\ Ran("create_config_files") /\ NoRun
    \/ UpdateDotGitignore /\ Ran("update_dot_gitignore") /\ NoRun

SpecArtifacts == InitArtifacts /\ [][NextArtifacts]_vars

-----------------------------------------------------------------------------
(* generate_pre_commit_conf: the main function, statement by statement.    *)

\* _get_dest(args)
_get_dest(ns) == IF "dest" \in DOMAIN ns THEN ns["dest"] ELSE "."

\* The directory a path names when the working directory is dir.
Resolve(path, dir) == IF path = "." THEN dir ELSE path

(* The output of the process is a sequence of pieces of text, as the        *)
(* contents of .gitignore are; str.strip() drops the whitespace pieces at   *)
(* both ends.                                                               *)
Whitespace == {"\n", " "}

RECURSIVE LStrip(_)
LStrip(text) ==
    IF text # <<>> /\ Head(text) \in Whitespace THEN LStrip(Tail(text)) ELSE text

RECURSIVE RStrip(_)
RStrip(text) ==
    IF text # <<>> /\ text[Len(text)] \in Whitespace
    THEN RStrip(SubSeq(text, 1, Len(text) - 1)) ELSE text

\* stdout.decode().strip()
Strip(text) == RStrip(LStrip(text))

\* What `pre-commit install` may write to its standard output.
Stdouts ==
    {<<>>,
     <<"pre-commit installed at .git/hooks/pre-commit", "\n">>,
     <<"An error has occurred: FatalError: git failed.", "\n",
       "Check the log at ~/.cache/pre-commit/pre-commit.log", "\n">>}

\* run_pre_commit_install(args) up to the point where it ends or is suspended
\* in `await process.communicate()`: skipped on request; else the executable
\* is looked up, the working directory changed to the destination and the
\* process created.  Whether the executable is found, the destination can be
\* entered and the process can be created is up to the environment.
RunPreCommitInstall ==
    /\ argsFrom # "none"
    /\ ~awaiting.active
    /\ called' = "run_pre_commit_install"
    /\ IF "skip_pre_commit_install" \in DOMAIN args
              /\ Truthy(args["skip_pre_commit_install"])
       THEN /\ raised' = "none"
            /\ process' = NoProcess
            /\ UNCHANGED <<install, cwd, awaiting>>
       ELSE \E exe_path \in {None, "/usr/bin/pre-commit"},
               entered \in {TRUE, _get_dest(args) = "."},
               created \in BOOLEAN :
              IF exe_path = None
              THEN /\ raised' = "AssertionError"
                   /\ process' = NoProcess
                   /\ UNCHANGED <<install, cwd, awaiting>>
              ELSE IF ~entered
              THEN /\ raised' = "FileNotFoundError"
                   /\ process' = NoProcess
                   /\ UNCHANGED <<install, cwd, awaiting>>
              ELSE IF ~created
              THEN /\ raised' = "OSError"
                   /\ cwd' = Resolve(_get_dest(args), cwd)
                   /\ process' = NoProcess
                   /\ UNCHANGED <<install, awaiting>>
              ELSE /\ raised' = "none"
                   /\ cwd' = Resolve(_get_dest(args), cwd)
                   /\ process' = [state |-> "running", starts |-> 1,
                                  cwd |-> Resolve(_get_dest(args), cwd),
                                  returncode |-> None, stdout |-> <<>>]
                   /\ awaiting' = [active |-> TRUE, cwd |-> cwd]
                   /\ install' = TRUE
    /\ instructions' = <<>>
    /\ findings' = NoFindings
    /\ exit_messages' = <<>>
    /\ UNCHANGED <<args, argsFrom, command_line_args, prefFile, prefOrigin,
                   pipelineFile, edits>>

\* The environment: `pre-commit install` exits, having written its output.
ProcessExits ==
    /\ process.state = "running"
    /\ \E returncode \in {"0", "1"}, stdout \in Stdouts :
         process' = [process EXCEPT !.state = "exited", !.returncode = returncode,
                                    !.stdout = stdout]
    /\ UNCHANGED <<args, argsFrom, command_line_args, prefFile, prefOrigin,
                   pipelineFile, called, raised, instructions, findings,
                   exit_messages, edits, install, cwd, awaiting>>

\* The end of run_pre_commit_install without the look at the return code.
CommunicateReturnsAlways ==
    /\ awaiting.active
    /\ process.state = "exited"
    /\ cwd' = awaiting.cwd
    /\ awaiting' = NotAwaiting
    /\ raised' = "none"
    /\ exit_messages' = <<>>
    /\ UNCHANGED <<args, argsFrom, command_line_args, prefFile, prefOrigin,
                   pipelineFile, called, instructions, findings, edits, install,
                   process>>

\* run_pre_commit_install from the return of communicate() to its end: back
\* to the working directory saved, then the return code is looked at.
CommunicateReturns ==
    /\ awaiting.active
    /\ process.state = "exited"
    /\ cwd' = awaiting.cwd
    /\ awaiting' = NotAwaiting
    /\ IF process.returncode = "0"
       THEN /\ raised' = "none"
            /\ exit_messages' = <<>>
       ELSE /\ raised' = "RuntimeError"
            /\ exit_messages' = Strip(process.stdout)
    /\ UNCHANGED <<args, argsFrom, command_line_args, prefFile, prefOrigin,
                   pipelineFile, called, instructions, findings, edits, install,
                   process>>

\* The calls of generate_pre_commit_conf with the artifacts written before
\* the preference file is validated.
StatementsGenerateFirst ==
    <<"parse_args", "create_or_report_missing_config_file",
      "generate_pre_commit_conf_file", "create_config_files", "update_dot_gitignore",
      "validate_config_file_contents", "update_args_from_config_file",
      "run_pre_commit_install">>

\* The calls of generate_pre_commit_conf, in order.
Statements ==
    <<"parse_args", "create_or_report_missing_config_file",
      "validate_config_file_contents", "update_args_from_config_file",
      "generate_pre_commit_conf_file", "create_config_files", "update_dot_gitignore",
      "run_pre_commit_install">>

\* The statement after the given one, "return" after the last.
After(statement) ==
    LET i == CHOOSE j \in 1..Len(Statements) : Statements[j] = statement
    IN IF i = Len(Statements) THEN "return" ELSE Statements[i + 1]

\* Control after a call: on to the next statement if it returned; any
\* exception ends the process with status 1, be it through sys.exit(str(e))
\* of the except clause, the call's own sys.exit(1), or uncaught.
Proceed(statement) ==
    /\ pc = statement
    /\ IF raised' = "none"
       THEN /\ pc' = After(statement)
            /\ exit_status' = IF After(statement) = "return" THEN "0" ELSE None
       ELSE /\ pc' = "exit"
            /\ exit_status' = "1"
    /\ UNCHANGED <<dest0, ran>>

\* Control while and after run_pre_commit_install is suspended.
Suspend(statement) ==
    /\ pc = statement
    /\ pc' = "process.communicate"
    /\ UNCHANGED <<exit_status, dest0, ran>>

Resume ==
    /\ pc = "process.communicate"
    /\ IF raised' = "none"
       THEN /\ pc' = "return"
            /\ exit_status' = "0"
       ELSE /\ pc' = "exit"
            /\ exit_status' = "1"
    /\ UNCHANGED <<dest0, ran>>

\* The destinations a run starts in: the preference file is absent, empty,
\* invalid, or valid with mypy and ruff either way; the other files are all
\* absent, or some exist.
RunPrefFiles ==
    InitialPrefFiles
        \cup {PrefFileOf(CreateConfigFileLines(ParsedNamespace({"--create"}))),
              PrefFileOf(CreateConfigFileLines(
                  ParsedNamespace({"--create", "--no-mypy", "--with-ruff"})))}

InitialRuns ==
    {DestinationOf(pref, NoPipelineFile, NoConfigFiles, NoGitignore) :
         pref \in RunPrefFiles}
    \cup {DestinationOf(pref, PipelineFileOf(ExistingPipelineText),
                        ConfigFilesOf({".flake8", ".ruff.toml"}),
                        GitignoreOf(<<"*.pyc">>)) : pref \in RunPrefFiles}

InitRun ==
    /\ args = EmptyNamespace
    /\ argsFrom = "none"
    /\ command_line_args = {}
    /\ \E d \in InitialRuns :
        /\ prefFile = d.prefFile
        /\ pipelineFile = d.pipelineFile
        /\ configFiles = d.configFiles
        /\ gitignore = d.gitignore
    /\ prefOrigin = InitialOrigin
    /\ called = "none"
    /\ raised = "none"
    /\ instructions = <<>>
    /\ findings = NoFindings
    /\ exit_messages = <<>>
    /\ edits = 0
    /\ ran = {}
    /\ pc = Statements[1]
    /\ exit_status = None
    /\ dest0 = Destination
    /\ install = FALSE
    /\ cwd = OriginalCwd
    /\ process = NoProcess
    /\ awaiting = NotAwaiting
    /\ metadata = NoMetadata
    /\ pyproject = NoPyproject

NextRun ==
    \/ /\ ParseArgs
       /\ UNCHANGED <<configFiles, gitignore>>
       /\ NoProcessStep
       /\ Proceed("parse_args")
    \/ /\ CreateOrReportMissingConfigFile
       /\ UNCHANGED <<configFiles, gitignore>>
       /\ NoProcessStep
       /\ Proceed("create_or_report_missing_config_file")
    \/ /\ ValidateConfigFileContents
       /\ UNCHANGED <<configFiles, gitignore>>
       /\ NoProcessStep
       /\ Proceed("validate_config_file_contents")
    \/ /\ UpdateArgsFromConfigFile
       /\ UNCHANGED <<configFiles, gitignore>>
       /\ NoProcessStep
       /\ Proceed("update_args_from_config_file")
    \/ /\ GeneratePreCommitConfFile
       /\ UNCHANGED <<configFiles, gitignore>>
       /\ NoProcessStep
       /\ Proceed("generate_pre_commit_conf_file")
    \/ CreateConfigFiles /\ NoProcessStep /\ Proceed("create_config_files")
    \/ UpdateDotGitignore /\ NoProcessStep /\ Proceed("update_dot_gitignore")
    \/ /\ RunPreCommitInstall
       /\ UNCHANGED <<configFiles, gitignore, metadata, pyproject>>
       /\ IF awaiting'.active
          THEN Suspend("run_pre_commit_install")
          ELSE Proceed("run_pre_commit_install")
    \/ /\ ProcessExits
       /\ UNCHANGED <<configFiles, gitignore, metadata, pyproject>>
       /\ UNCHANGED <<pc, exit_status, dest0, ran>>
    \/ /\ CommunicateReturns
       /\ UNCHANGED <<configFiles, gitignore, metadata, pyproject>>
       /\ Resume

SpecRun == InitRun /\ [][NextRun]_vars

-----------------------------------------------------------------------------
(* test_run_pre_commit_install: the function called on its own.            *)

\* The namespaces of the test: dest and skip_pre_commit_install may be absent.
InstallNamespaces ==
    {[a \in D |-> IF a = "dest" THEN dest ELSE skip] :
        D \in SUBSET {"dest", "skip_pre_commit_install"},
        dest \in {".", DestDir}, skip \in {PyTrue, PyFalse}}

InitInstall ==
    /\ args \in InstallNamespaces
    /\ argsFrom = "create_args"
    /\ command_line_args = {}
    /\ prefFile = NoPrefFile
    /\ prefOrigin = InitialOrigin
    /\ pipelineFile = NoPipelineFile
    /\ called = "none"
    /\ raised = "none"
    /\ instructions = <<>>
    /\ findings = NoFindings
    /\ exit_messages = <<>>
    /\ edits = 0
    /\ configFiles = NoConfigFiles
    /\ gitignore = NoGitignore
    /\ NotStarted

\* A step of run_pre_commit_install or of its subprocess.
NoFileStep ==
    UNCHANGED <<configFiles, gitignore, ran, pc, exit_status, dest0, metadata,
                pyproject>>

NextInstall ==
    \/ RunPreCommitInstall /\ NoFileStep
    \/ ProcessExits /\ NoFileStep
    \/ CommunicateReturns /\ NoFileStep

SpecInstall == InitInstall /\ [][NextInstall]_vars

\* The event loop resumes the coroutine once the process has exited; nothing
\* makes the process exit.
SpecInstallFair == SpecInstall /\ WF_vars(CommunicateReturns /\ NoFileStep)

-----------------------------------------------------------------------------
(* pre_commit_hooks.py: construction of a PreCommitHookMetadata.           *)

\* The arguments a PreCommitHookMetadata is constructed with: those of the
\* registry, and every combination of None, the empty string and a text.
MetadataArguments ==
    {registry[hook_name] : hook_name \in Range(RegistryNames)}
    \cup [pre_commit_config : {"", "\n  - repo: local"},
          config_file_name : {None, "", ".flake8", ".local.cfg"},
          config : {None, "", "[flake8]"},
          rule_type : {MANDATORY, OPT_IN, OPT_OUT}]

\* The condition of __post_init__ with its second disjunct left out.
PostInitRaisesOneWay(self) ==
    self.config_file_name = None /\ self.config # None

\* The condition __post_init__ raises RuntimeError on; the tests are
\* "is None", so the empty string counts as set.
PostInitRaises(self) ==
    \/ self.config_file_name = None /\ self.config # None
    \/ self.config_file_name # None /\ self.config = None

\* PreCommitHookMetadata(**arguments): the generated __init__ stores the
\* fields, then __post_init__ checks them.
Construct ==
    /\ metadata.state = "arguments"
    /\ called' = "PreCommitHookMetadata"
    /\ IF PostInitRaises(metadata.fields)
       THEN /\ raised' = "RuntimeError"
            /\ metadata' = [metadata EXCEPT !.state = "failed"]
       ELSE /\ raised' = "none"
            /\ metadata' = [metadata EXCEPT !.state = "constructed"]
    /\ UNCHANGED <<args, argsFrom, command_line_args, prefFile, prefOrigin,
                   pipelineFile, instructions, findings, exit_messages, edits,
                   configFiles, gitignore, ran, pc, exit_status, dest0, install,
                   cwd, process, awaiting, pyproject>>

InitMetadata ==
    /\ args = EmptyNamespace
    /\ argsFrom = "none"
    /\ command_line_args = {}
    /\ prefFile = NoPrefFile
    /\ prefOrigin = InitialOrigin
    /\ pipelineFile = NoPipelineFile
    /\ called = "none"
    /\ raised = "none"
    /\ instructions = <<>>
    /\ findings = NoFindings
    /\ exit_messages = <<>>
    /\ edits = 0
    /\ configFiles = NoConfigFiles
    /\ gitignore = NoGitignore
    /\ ran = {}
    /\ pc = "none"
    /\ exit_status = None
    /\ dest0 = Destination
    /\ install = FALSE
    /\ cwd = OriginalCwd
    /\ process = NoProcess
    /\ awaiting = NotAwaiting
    /\ \E fields \in MetadataArguments :
          metadata = [state |-> "arguments", fields |-> fields]
    /\ pyproject = NoPyproject

NextMetadata == Construct

SpecMetadata == InitMetadata /\ [][NextMetadata]_vars

-----------------------------------------------------------------------------
(* modify_pyproject.py: the legacy command.                                *)

FLAKE8_CONFIG_FILE_NAME == ".flake8"
ISORT_CONFIG_FILE_NAME == ".isort.cfg"
MYPY_CONFIG_FILE_NAME == ".mypy.ini"

\* Longest .gitignore, in pieces of text, the command is started with.
MaxGitignorePieces == 3

\* The pieces of a .gitignore: a newline, other text, and names the command
\* looks for.
GitignorePieces ==
    {"\n", "*.pyc", PRE_COMMIT_CONFIG_FILE_NAME, FLAKE8_CONFIG_FILE_NAME,
     MYPY_CONFIG_FILE_NAME}

\* A pyproject.toml with the given tables under [tool], or without [tool].
PyprojectOf(hasTool, tool) == [exists |-> TRUE, hasTool |-> hasTool, tool |-> tool]

\* The options typer hands to the command.
LegacyArguments == [{"mypy", "pflake8"} -> {PyTrue, PyFalse}]

\* The tables the templates add under [tool]; the templates are not part of
\* the sources, each is taken to hold the table of its name.
PyprojectTables(mypy, pflake8) ==
    {"isort"} \cup (IF mypy THEN {"mypy"} ELSE {})
              \cup (IF pflake8 THEN {"flake8"} ELSE {})

\* The pipeline configuration put together from the templates, each template
\* standing for its text.
LegacyPreCommitConfig(mypy, pflake8) ==
    "pre-commit-config-template.yaml" \o "isort-pre-commit-hook-template.yaml"
        \o (IF mypy THEN "mypy-pre-commit-hook-template.yaml" ELSE "")
        \o (IF pflake8 THEN "pflake8-pre-commit-hook-template.yaml" ELSE "")

\* What the command appends to .gitignore: a line per name not in the contents.
LegacyGitignoreEntries(dot_gitignore_contents, mypy) ==
    (IF ~In(PRE_COMMIT_CONFIG_FILE_NAME, dot_gitignore_contents)
     THEN <<PRE_COMMIT_CONFIG_FILE_NAME, "\n">> ELSE <<>>)
    \o (IF ~In(FLAKE8_CONFIG_FILE_NAME, dot_gitignore_contents)
        THEN <<FLAKE8_CONFIG_FILE_NAME, "\n">> ELSE <<>>)
    \o (IF ~In(ISORT_CONFIG_FILE_NAME, dot_gitignore_contents)
        THEN <<ISORT_CONFIG_FILE_NAME, "\n">> ELSE <<>>)
    \o (IF mypy /\ ~In(MYPY_CONFIG_FILE_NAME, dot_gitignore_contents)
        THEN <<MYPY_CONFIG_FILE_NAME, "\n">> ELSE <<>>)

\* modify_pyproject(mypy, dest, pflake8): pyproject.toml is read and the
\* templates' tables are put under [tool]; .flake8 is copied to the
\* destination, the pipeline configuration file is written anew, and
\* .gitignore is touched if absent and appended to.
ModifyPyproject ==
    /\ argsFrom = "typer"
    /\ called' = "modify_pyproject"
    /\ LET mypy == Truthy(args["mypy"])
           pflake8 == Truthy(args["pflake8"])
       IN \E templates \in BOOLEAN :
            IF ~pyproject.exists \/ ~templates
            THEN /\ raised' = "FileNotFoundError"
                 /\ UNCHANGED <<pyproject, configFiles, pipelineFile, gitignore>>
            ELSE IF ~pyproject.hasTool
            THEN /\ raised' = "KeyError"
                 /\ UNCHANGED <<pyproject, configFiles, pipelineFile, gitignore>>
            ELSE /\ raised' = "none"
                 /\ pyproject' = PyprojectOf(TRUE, pyproject.tool
                                                  \cup PyprojectTables(mypy, pflake8))
                 /\ configFiles' = [configFiles EXCEPT ![FLAKE8_CONFIG_FILE_NAME] =
                                        ConfigFileOf(registry["flake8"].config)]
                 /\ pipelineFile' = PipelineFileOf(LegacyPreCommitConfig(mypy, pflake8))
                 /\ gitignore' = GitignoreOf(gitignore.contents
                                     \o LegacyGitignoreEntries(gitignore.contents, mypy))
    /\ UNCHANGED <<args, argsFrom, command_line_args, prefFile, prefOrigin,
                   instructions, findings, exit_messages, edits, ran, pc,
                   exit_status, dest0, install, cwd, process, awaiting, metadata>>

RECURSIVE GitignoreContents(_)
\* The .gitignore contents of at most n pieces.
GitignoreContents(n) ==
    IF n = 0 THEN {<<>>}
    ELSE LET shorter == GitignoreContents(n - 1)
         IN shorter \cup {Append(contents, piece) :
                              contents \in shorter, piece \in GitignorePieces}

InitLegacy ==
    /\ args \in LegacyArguments
    /\ argsFrom = "typer"
    /\ command_line_args = {}
    /\ prefFile = NoPrefFile
    /\ prefOrigin = InitialOrigin
    /\ pipelineFile \in {NoPipelineFile, PipelineFileOf(ExistingPipelineText)}
    /\ called = "none"
    /\ raised = "none"
    /\ instructions = <<>>
    /\ findings = NoFindings
    /\ exit_messages = <<>>
    /\ edits = 0
    /\ configFiles = NoConfigFiles
    /\ gitignore \in {NoGitignore}
                       \cup {GitignoreOf(contents) :
                                contents \in GitignoreContents(MaxGitignorePieces)}
    /\ ran = {}
    /\ pc = "none"
    /\ exit_status = None
    /\ dest0 = Destination
    /\ install = FALSE
    /\ cwd = OriginalCwd
    /\ process = NoProcess
    /\ awaiting = NotAwaiting
    /\ metadata = NoMetadata
    /\ pyproject \in {NoPyproject, PyprojectOf(FALSE, {}), PyprojectOf(TRUE, {"black"})}

NextLegacy == ModifyPyproject

SpecLegacy == InitLegacy /\ [][NextLegacy]_vars

-----------------------------------------------------------------------------
(* Properties.                                                             *)

\* The registry hooks other than the always-on pseudo-entry.
ToggleableHooks == Range(RegistryNames) \ {"pre-commit-hooks"}

\* The inclusion predicate: MANDATORY, or OPT_OUT and no_<hook> not true, or
\* OPT_IN and with_<hook> true; an absent flag counts as false.
Included(ns, h) ==
    \/ registry[h].rule_type = MANDATORY
    \/ /\ registry[h].rule_type = OPT_OUT
       /\ ~(ArgName("no", h) \in DOMAIN ns /\ ns[ArgName("no", h)] = PyTrue)
    \/ /\ registry[h].rule_type = OPT_IN
       /\ ArgName("with", h) \in DOMAIN ns
       /\ ns[ArgName("with", h)] = PyTrue

RECURSIVE ConcatFragments(_)
ConcatFragments(names) ==
    IF names = <<>> THEN ""
    ELSE registry[Head(names)].pre_commit_config \o ConcatFragments(Tail(names))

ExpectedPipelineText(ns) ==
    "repos:" \o ConcatFragments(SelectSeq(RegistryNames, LAMBDA h : Included(ns, h)))

OverwriteSet(ns) == "overwrite" \in DOMAIN ns /\ ns["overwrite"] = PyTrue

\* C1: whenever generate_pre_commit_conf_file writes the pipeline configuration
\* (target absent, or overwrite set), the text written is "repos:" followed by
\* the fragments, in registry order, of exactly the hooks the inclusion
\* predicate selects; the mandatory fragments are there whatever args and the
\* preference file say.
C1_PipelineText ==
    [][(/\ called' = "generate_pre_commit_conf_file"
        /\ (~pipelineFile.exists \/ OverwriteSet(args)))
       => pipelineFile' = PipelineFileOf(ExpectedPipelineText(args))]_vars

\* A preference file that sets every hook to false, args that exclude mypy and
\* include ruff only: the text has the four mandatory fragments and ruff's.
C1_Witness ==
    /\ called = "generate_pre_commit_conf_file"
    /\ prefFile = PrefFileOf(AllFalseLines)
    /\ DOMAIN args = {"create", "no_mypy", "with_ruff", "with_towncrier"}
    /\ args["no_mypy"] = PyTrue
    /\ args["with_ruff"] = PyTrue
    /\ args["with_towncrier"] = PyFalse
    /\ pipelineFile.text =
         "repos:" \o registry["black"].pre_commit_config
                  \o registry["flake8"].pre_commit_config
                  \o registry["isort"].pre_commit_config
                  \o registry["pre-commit-hooks"].pre_commit_config
                  \o registry["ruff"].pre_commit_config

\* C2: the preference file written by create_or_report_missing_config_file
\* with create=True passes validate_config_file_contents without any finding,
\* whatever the --no-<hook> / --with-<hook> flags.
C2_ValidatorSoundness ==
    (called = "validate_config_file_contents" /\ prefOrigin.how = "created")
        => (raised = "none" /\ findings = NoFindings /\ exit_messages = <<>>)

C2_Witness ==
    /\ called = "validate_config_file_contents"
    /\ prefOrigin.how = "created"
    /\ argsFrom = "parse_args"
    /\ command_line_args = {"--create", "--no-mypy", "--with-clang-format"}
    /\ raised = "none"

\* The preference file has just been validated and parsed to a mapping.
Validated ==
    /\ called = "validate_config_file_contents"
    /\ prefFile.exists
    /\ ~safe_load(prefFile.lines).isNone

Document == safe_load(prefFile.lines)

MandatoryKeys == {h \in ToggleableHooks : registry[h].rule_type = MANDATORY}

OnlyFinding(missing, incorrect, additional) ==
    findings = [missing_hooks |-> missing, incorrect_config_options |-> incorrect,
                additional_hooks |-> additional]

\* C3: from a valid document, (a) removing one mandatory key k reports only
\* Missing, with k, (b) setting one mandatory key k to false reports only
\* Incorrect, with k, (c) adding one unrecognized key z reports only
\* Additional, with z; and Incorrect lists only MANDATORY entries present in
\* the document with a value other than true.
C3_NotConflated ==
    Validated =>
        /\ (prefOrigin.how = "modified" /\ prefOrigin.fromValid) =>
            /\ (prefOrigin.op = "pop" /\ prefOrigin.key \in MandatoryKeys)
                  => OnlyFinding(<<prefOrigin.key>>, <<>>, <<>>)
            /\ (/\ prefOrigin.op = "set"
                /\ prefOrigin.key \in MandatoryKeys
                /\ prefOrigin.value = PyFalse)
                  => OnlyFinding(<<>>, <<prefOrigin.key>>, <<>>)
            /\ (/\ prefOrigin.op = "set"
                /\ prefOrigin.key \notin Range(HookNames))
                  => OnlyFinding(<<>>, <<>>, <<prefOrigin.key>>)
        /\ \A h \in Range(findings.incorrect_config_options) :
              /\ h \in MandatoryKeys
              /\ h \in Keys(Document)
              /\ Item(Document, h) # PyTrue

NoDuplicates(seq) == Cardinality(Range(seq)) = Len(seq)

C5_AdditionalNoRegistryName ==
    Validated =>
        Range(findings.additional_hooks) =
            {k \in Keys(Document) :
                k \notin Range(RegistryNames) /\ k \notin {"check-yaml", "check-xml"}}

\* C5 amended: the Additional finding is exactly the set of document keys that
\* are neither the name of a registry entry other than the pseudo-entry nor
\* check-yaml or check-xml.
C5_AdditionalExact ==
    Validated =>
        /\ Range(findings.additional_hooks) =
              {k \in Keys(Document) :
                  k \notin ToggleableHooks /\ k \notin {"check-yaml", "check-xml"}}
        /\ NoDuplicates(findings.additional_hooks)

\* The key of the pseudo-entry and a key that is no hook are both reported.
C5_Witness ==
    /\ Validated
    /\ findings.additional_hooks = <<"pre-commit-hooks", "test">>
    /\ {"check-yaml", "check-xml", "black"} \subseteq Keys(Document)

HasMessage(text, hooks) ==
    \E k \in 1..Len(exit_messages) :
        exit_messages[k].text = text /\ Range(exit_messages[k].hooks) = Range(hooks)

\* C6: the three checks are all evaluated; if any finds something one ValueError
\* is raised whose message has every non-empty category, and no error is
\* raised if all three are empty.
C6_Aggregated ==
    Validated =>
        LET m == _check_missing_hooks(Document, HookNames)
            i == _check_incorrect_config_options(Document, HookNames)
            a == _check_additional_hooks(Document, HookNames)
        IN /\ raised = IF m # <<>> \/ i # <<>> \/ a # <<>> THEN "ValueError" ELSE "none"
           /\ m # <<>> <=> HasMessage(MissingText, m)
           /\ i # <<>> <=> HasMessage(IncorrectText, i)
           /\ a # <<>> <=> HasMessage(AdditionalText, a)
           /\ \A k \in 1..Len(exit_messages) : exit_messages[k].hooks # <<>>
           /\ Len(exit_messages) =
                Cardinality({c \in {"m", "i", "a"} :
                    \/ c = "m" /\ m # <<>>
                    \/ c = "i" /\ i # <<>>
                    \/ c = "a" /\ a # <<>>})

\* A document with all three kinds of finding: one error with three messages.
C6_Witness ==
    /\ Validated
    /\ raised = "ValueError"
    /\ Len(exit_messages) = 3
    /\ findings.additional_hooks = <<"test">>

\* C7: with the preference file absent and create false,
\* create_or_report_missing_config_file raises FileNotFoundError and creates
\* no file, and the document of its message, pasted into the preference file,
\* passes validate_config_file_contents.
C7_Remediation ==
    [][/\ (/\ called' = "create_or_report_missing_config_file"
           /\ ~prefFile.exists
           /\ args["create"] = PyFalse)
          => (/\ raised' = "FileNotFoundError"
              /\ ~prefFile'.exists
              /\ instructions' # <<>>)
       /\ (called' = "validate_config_file_contents" /\ prefOrigin'.how = "pasted")
          => (raised' = "none" /\ findings' = NoFindings)]_vars

C7_Witness ==
    /\ called = "validate_config_file_contents"
    /\ prefOrigin.how = "pasted"
    /\ args["create"] = PyFalse
    /\ GetAttr(args, "no_mypy", PyFalse) = PyTrue
    /\ raised = "none"

LinesOf(file, key) == {i \in 1..Len(file.lines) : file.lines[i].key = key}

\* C8: created from the args of parse_args with --create, the preference file
\* holds true for every MANDATORY hook, for an OPT_OUT hook false if its
\* --no-<hook> flag was given and true otherwise, for an OPT_IN hook true if
\* its --with-<hook> flag was given and false otherwise.
C8_CreationDefaults ==
    (argsFrom = "parse_args" /\ prefOrigin.how = "created") =>
        /\ "--create" \in command_line_args
        /\ \A h \in ToggleableHooks :
              \E i \in LinesOf(prefFile, h) :
                  prefFile.lines[i].val =
                      CASE registry[h].rule_type = MANDATORY -> "true"
                        [] registry[h].rule_type = OPT_OUT ->
                             IF ("--no-" \o h) \in command_line_args
                             THEN "false" ELSE "true"
                        [] registry[h].rule_type = OPT_IN ->
                             IF ("--with-" \o h) \in command_line_args
                             THEN "true" ELSE "false"

C8_Witness ==
    /\ argsFrom = "parse_args"
    /\ prefOrigin.how = "created"
    /\ command_line_args = {"--create", "--no-mypy", "--with-ruff"}
    /\ {Line("mypy", "false"), Line("ruff", "true"), Line("towncrier", "false"),
        Line("black", "true")} \subseteq Range(prefFile.lines)

\* C9: the created preference file has exactly one line `name: true|false`
\* for every registry hook other than the pseudo-entry, and its lines are in
\* alphabetical order of key.
C9_OneSortedLinePerHook ==
    prefOrigin.how = "created" =>
        /\ \A h \in ToggleableHooks : Cardinality(LinesOf(prefFile, h)) = 1
        /\ \A i \in 1..Len(prefFile.lines) : prefFile.lines[i].val \in {"true", "false"}
        /\ \A i \in 1..Len(prefFile.lines) : \A j \in 1..Len(prefFile.lines) :
              i < j => CharsLess(Chars(prefFile.lines[i].key),
                                 Chars(prefFile.lines[j].key))

C9_Witness ==
    /\ prefOrigin.how = "created"
    /\ prefFile.lines[1] = Line("black", "true")
    /\ prefFile.lines[4] = Line("clang-format", "true")
    /\ prefFile.lines[8] = Line("mypy", "false")
    /\ prefFile.lines[Len(prefFile.lines)] = Line("towncrier", "false")

WrittenLines ==
    (IF prefOrigin.how = "created" THEN Range(prefFile.lines) ELSE {})
        \cup Range(instructions)

PseudoFlagAttrs == {ArgName("no", "pre-commit-hooks"), ArgName("with", "pre-commit-hooks")}

\* C10 as claimed: parse_args defines no flag for the pseudo-entry, and every
\* line of the created preference file and of the remediation document names
\* a registry hook other than the pseudo-entry.
C10_NoPseudoLines ==
    /\ argsFrom = "parse_args" => DOMAIN args \cap PseudoFlagAttrs = {}
    /\ \A line \in WrittenLines : line.key \in ToggleableHooks

\* C10 amended: parse_args defines no flag for the pseudo-entry and no written
\* line is keyed by its name; its sub-checks check-yaml and check-xml are
\* written, as true, so every line names a registry hook other than the
\* pseudo-entry or one of the two sub-checks.
C10_PseudoAsSubChecks ==
    /\ argsFrom = "parse_args" => DOMAIN args \cap PseudoFlagAttrs = {}
    /\ \A line \in WrittenLines :
          /\ line.key \in ToggleableHooks \cup {"check-yaml", "check-xml"}
          /\ line.key \in {"check-yaml", "check-xml"} => line.val = "true"
    /\ (prefOrigin.how = "created" \/ instructions # <<>>) =>
          {"check-yaml", "check-xml"} \subseteq {line.key : line \in WrittenLines}

C10_Witness ==
    /\ argsFrom = "parse_args"
    /\ prefOrigin.how = "created"
    /\ Line("check-yaml", "true") \in Range(prefFile.lines)
    /\ Line("check-xml", "true") \in Range(prefFile.lines)

-----------------------------------------------------------------------------
\* The hooks that have a flag, by rule type.
OptOutHooks == {h \in Range(RegistryNames) : registry[h].rule_type = OPT_OUT}
OptInHooks == {h \in Range(RegistryNames) : registry[h].rule_type = OPT_IN}

\* The attributes update_args_from_config_file is to set.
LoadedAttrs ==
    {ArgName("no", h) : h \in OptOutHooks} \cup {ArgName("with", h) : h \in OptInHooks}

\* The negation of a value of the document, as a Python bool.
Negation(value) == IF value \in {PyFalse, "0", ""} THEN PyTrue ELSE PyFalse

\* C11: when update_args_from_config_file returns, no_<hook> of every OPT_OUT
\* hook is the negation of the document's value (false when the key is
\* absent), with_<hook> of every OPT_IN hook is the document's value (False
\* when absent), no attribute is added for a MANDATORY hook and every other
\* attribute is as before; mypy: false gives no_mypy = True.
C11_UpdateArgs ==
    [][(called' = "update_args_from_config_file" /\ raised' = "none")
       => /\ \A h \in OptOutHooks :
               args'[ArgName("no", h)] =
                   IF h \in Keys(Document) THEN Negation(Item(Document, h)) ELSE PyFalse
          /\ \A h \in OptInHooks :
               args'[ArgName("with", h)] =
                   IF h \in Keys(Document) THEN Item(Document, h) ELSE PyFalse
          /\ DOMAIN args' = DOMAIN args \cup LoadedAttrs
          /\ \A a \in DOMAIN args \ LoadedAttrs : args'[a] = args[a]
          /\ ("mypy" \in Keys(Document) /\ Item(Document, "mypy") = PyFalse)
                 => args'["no_mypy"] = PyTrue]_vars

\* The file holds mypy: false and no key ruff; the load has set no_mypy and
\* cleared with_ruff, and create is still set.
C11_Witness ==
    /\ called = "update_args_from_config_file"
    /\ raised = "none"
    /\ "mypy" \in Keys(Document)
    /\ Item(Document, "mypy") = PyFalse
    /\ "ruff" \notin Keys(Document)
    /\ args["no_mypy"] = PyTrue
    /\ args["with_ruff"] = PyFalse
    /\ args["with_towncrier"] = PyTrue
    /\ args["create"] = PyTrue

-----------------------------------------------------------------------------
\* Every --no-<hook> and --with-<hook> attribute is present as a boolean.
AllFlagsBoolean(ns) ==
    \A a \in LoadedAttrs : a \in DOMAIN ns /\ ns[a] \in {PyTrue, PyFalse}

\* C12: when the preference file has just been created from args in which
\* every hook flag is a boolean, update_args_from_config_file returns and
\* leaves args equal to what they were.
C12_RoundTrip ==
    [][(/\ called = "create_or_report_missing_config_file"
        /\ raised = "none"
        /\ prefOrigin.how = "created"
        /\ AllFlagsBoolean(args)
        /\ called' = "update_args_from_config_file")
       => (raised' = "none" /\ args' = args)]_vars

\* A round trip of args that exclude mypy, clang-format and ruff, include
\* towncrier and format-xmllint, and also carry overwrite.
C12_Witness ==
    /\ called = "update_args_from_config_file"
    /\ raised = "none"
    /\ prefOrigin.how = "created"
    /\ \E i \in 1..Len(prefFile.lines) : prefFile.lines[i] = Line("mypy", "false")
    /\ \E i \in 1..Len(prefFile.lines) : prefFile.lines[i] = Line("towncrier", "true")
    /\ args = [a \in LoadedAttrs \cup {"create", "overwrite"} |->
                 IF a \in {"create", "no_mypy", "with_towncrier", "with_format_xmllint"}
                 THEN PyTrue ELSE PyFalse]

-----------------------------------------------------------------------------
\* The hooks that own a configuration file, and the owner of a file.
HooksWithConfigFile == {h \in Range(RegistryNames) : registry[h].config_file_name # None}
Owner(name) == CHOOSE h \in HooksWithConfigFile : registry[h].config_file_name = name

\* C14: whenever parse_args is given a --no-<hook> or --with-<hook> flag
\* without --create it raises ValueError.
C14_OverrideRequiresCreate ==
    (/\ called = "parse_args"
     /\ command_line_args \cap HookOptions # {}
     /\ "--create" \notin command_line_args)
    => raised = "ValueError"

-----------------------------------------------------------------------------
\* C15: once create_config_files has run in a destination that held none of
\* the hook configuration files, the file of every hook that owns one and
\* satisfies the inclusion predicate exists with the registry's config text,
\* and the file of every excluded hook does not exist.
C15_ConfigFilesExact ==
    (dest0.configFiles = NoConfigFiles /\ "create_config_files" \in ran)
    => \A name \in ConfigFileNames :
         configFiles[name] =
             IF Included(args, Owner(name))
             THEN ConfigFileOf(registry[Owner(name)].config)
             ELSE NoConfigFile

\* mypy excluded by no_mypy, ruff included by with_ruff, clang-format has no
\* flag in args: of the six files .flake8, .isort.cfg and .ruff.toml exist.
C15_Witness ==
    /\ dest0.configFiles = NoConfigFiles
    /\ called = "create_config_files"
    /\ DOMAIN args = {"no_mypy", "with_ruff", "with_towncrier"}
    /\ args["no_mypy"] = PyTrue
    /\ args["with_ruff"] = PyTrue
    /\ args["with_towncrier"] = PyFalse
    /\ {name \in ConfigFileNames : configFiles[name].exists}
           = {".flake8", ".isort.cfg", ".ruff.toml"}
    /\ configFiles[".ruff.toml"].text = registry["ruff"].config

-----------------------------------------------------------------------------
\* The file a writer leaves under the overwrite-or-skip policy.
OverwriteOrSkip(ns, file, text) ==
    IF file.exists /\ ~OverwriteSet(ns) THEN file ELSE [exists |-> TRUE, text |-> text]

\* C16: generate_pre_commit_conf_file leaves an existing pipeline file as it
\* is unless overwrite is true, and otherwise writes the composed text;
\* create_config_files does the same, with the registry's text, for the
\* config file of every included hook.
C16_OverwriteOrSkip ==
    [][/\ called' = "generate_pre_commit_conf_file"
          => pipelineFile' =
                 OverwriteOrSkip(args, pipelineFile, ExpectedPipelineText(args))
       /\ called' = "create_config_files"
          => \A h \in HooksWithConfigFile :
               Included(args, h)
               => configFiles'[registry[h].config_file_name] =
                      OverwriteOrSkip(args, configFiles[registry[h].config_file_name],
                                      registry[h].config)]_vars

\* With overwrite the edited .flake8 has been replaced and the missing
\* .isort.cfg created; the existing pipeline file has been replaced too.
C16_Witness ==
    /\ ran = {"generate_pre_commit_conf_file", "create_config_files"}
    /\ OverwriteSet(args)
    /\ dest0.configFiles = ConfigFilesOf({".flake8"})
    /\ dest0.pipelineFile = PipelineFileOf(ExistingPipelineText)
    /\ configFiles[".flake8"] = ConfigFileOf(registry["flake8"].config)
    /\ configFiles[".isort.cfg"] = ConfigFileOf(registry["isort"].config)
    /\ pipelineFile = PipelineFileOf(ExpectedPipelineText(args))

\* Without overwrite the edited .flake8 and the pipeline file are as before.
C16_WitnessSkip ==
    /\ ran = {"generate_pre_commit_conf_file", "create_config_files"}
    /\ ~OverwriteSet(args)
    /\ dest0.configFiles = ConfigFilesOf({".flake8"})
    /\ configFiles[".flake8"] = ExistingConfigFile(".flake8")
    /\ configFiles[".isort.cfg"] = ConfigFileOf(registry["isort"].config)
    /\ pipelineFile = PipelineFileOf(ExistingPipelineText)

-----------------------------------------------------------------------------
\* C17: once update_dot_gitignore has run on an empty or absent .gitignore,
\* the file holds the name of the pipeline file and the config file name of a
\* hook if and only if the hook satisfies the inclusion predicate.
C17_IncludedEntriesOnly ==
    (dest0.gitignore.contents = <<>> /\ "update_dot_gitignore" \in ran)
    => /\ In(PRE_COMMIT_CONFIG_FILE_NAME, gitignore.contents)
       /\ \A h \in HooksWithConfigFile :
            In(registry[h].config_file_name, gitignore.contents) <=> Included(args, h)

-----------------------------------------------------------------------------
\* The names update_dot_gitignore may add, in the order it considers them: the
\* pipeline file, then the config files in registry order.
EntryOrder ==
    <<PRE_COMMIT_CONFIG_FILE_NAME>>
        \o [i \in 1..Len(SelectSeq(RegistryNames, LAMBDA h : h \in HooksWithConfigFile)) |->
              registry[SelectSeq(RegistryNames,
                                 LAMBDA h : h \in HooksWithConfigFile)[i]].config_file_name]

\* The place of a name in that order.
EntryPlace(name) == CHOOSE i \in 1..Len(EntryOrder) : EntryOrder[i] = name

\* The text is lines of one name each, the names taken from EntryOrder in
\* that order, none twice.
EntryLines(text) ==
    /\ Len(text) % 2 = 0
    /\ \A i \in 1..Len(text) :
         IF i % 2 = 0 THEN text[i] = "\n" ELSE text[i] \in Range(EntryOrder)
    /\ \A i, j \in 1..Len(text) :
         (i % 2 = 1 /\ j % 2 = 1 /\ i < j) => EntryPlace(text[i]) < EntryPlace(text[j])

\* C18: update_dot_gitignore leaves a file whose contents start with the prior
\* contents (none for an absent file); what follows is a newline if the prior
\* contents were non-empty and did not end in one, then lines of one entry
\* each, in the order pipeline file name, config file names in registry order;
\* no appended entry occurs in the prior contents, and the pipeline file name
\* and the config file name of every included hook are appended unless they
\* occur there.
C18_AppendOnly ==
    [][called' = "update_dot_gitignore"
       => LET prior == gitignore.contents
              new == gitignore'.contents
              newline == IF prior # <<>> /\ prior[Len(prior)] # "\n" THEN <<"\n">> ELSE <<>>
              lines == SubSeq(new, Len(prior) + Len(newline) + 1, Len(new))
          IN /\ gitignore'.exists
             /\ Len(new) >= Len(prior) + Len(newline)
             /\ SubSeq(new, 1, Len(prior) + Len(newline)) = prior \o newline
             /\ EntryLines(lines)
             /\ \A name \in Range(lines) \ {"\n"} : ~In(name, prior)
             /\ In(PRE_COMMIT_CONFIG_FILE_NAME, lines)
                    <=> ~In(PRE_COMMIT_CONFIG_FILE_NAME, prior)
             /\ \A h \in HooksWithConfigFile :
                  (Included(args, h) /\ ~In(registry[h].config_file_name, prior))
                  => In(registry[h].config_file_name, lines)]_vars

\* The prior contents ended inside a line and held .flake8 inside an earlier
\* line: a newline and every name but .flake8 have been appended.
C18_Witness ==
    /\ called = "update_dot_gitignore"
    /\ ran = {"update_dot_gitignore"}
    /\ dest0.gitignore.contents = <<"*.pyc", "\n", "old", ".flake8", ".bak">>
    /\ gitignore.contents =
           dest0.gitignore.contents
               \o <<"\n", ".pre-commit-config.yaml", "\n", ".clang-format", "\n",
                    ".isort.cfg", "\n", ".mypy.ini", "\n", ".ruff.toml", "\n",
                    "towncrier.toml", "\n">>

-----------------------------------------------------------------------------
\* C19: once generate_pre_commit_conf_file, create_config_files and
\* update_dot_gitignore have each run, running any of them again with the same
\* args leaves every file of the destination as it is.
C19_Idempotent ==
    [][ran = ArtifactWriters => Destination' = Destination]_vars

\* All three writers have run with overwrite set on a destination that held an
\* edited .flake8, a pipeline file and a .gitignore without final newline.
C19_Witness ==
    /\ ran = ArtifactWriters
    /\ OverwriteSet(args)
    /\ dest0.gitignore.contents = <<"*.pyc">>
    /\ dest0.configFiles = ConfigFilesOf({".flake8"})
    /\ configFiles[".flake8"] = ConfigFileOf(registry["flake8"].config)
    /\ pipelineFile = PipelineFileOf(ExpectedPipelineText(args))
    /\ Len(gitignore.contents) = 16

-----------------------------------------------------------------------------
\* The hooks whose fragments make up the text of a pipeline file.
PipelineHooks(text) ==
    CHOOSE S \in SUBSET Range(RegistryNames) :
        text = "repos:" \o ConcatFragments(SelectSeq(RegistryNames, LAMBDA h : h \in S))

\* The artifacts of the run have been written.
ArtifactsWritten ==
    called \in {"create_config_files", "update_dot_gitignore", "run_pre_commit_install"}

\* C13: in a run of generate_pre_commit_conf whose command line holds the flag
\* of a hook, the pipeline file the run writes holds the hook's fragment, and
\* the destination gains the hook's config file, if the flag is --with-<hook>,
\* and not if it is --no-<hook>, whatever the preference file says.
C13_OverridesTakePrecedence ==
    ArtifactsWritten
    => \A h \in OptOutHooks \cup OptInHooks :
         FlagOption(h) \in command_line_args
         => /\ (~dest0.pipelineFile.exists \/ "--overwrite" \in command_line_args)
               => (h \in PipelineHooks(pipelineFile.text) <=> h \in OptInHooks)
            /\ (h \in HooksWithConfigFile
                   /\ ~dest0.configFiles[registry[h].config_file_name].exists)
               => (configFiles[registry[h].config_file_name].exists <=> h \in OptInHooks)

-----------------------------------------------------------------------------
\* The calls of generate_pre_commit_conf that come before any artifact.
Checks ==
    {"parse_args", "create_or_report_missing_config_file",
     "validate_config_file_contents"}

\* C20: when parse_args, create_or_report_missing_config_file or
\* validate_config_file_contents ends with an error, the process has exited
\* with status 1, every file of the destination is as the run found it and
\* pre-commit install has not been started; and as long as the run has not got
\* past these three calls, the pipeline file, the hook config files and
\* .gitignore are as the run found them and pre-commit install has not been
\* started.
C20_ErrorsBeforeOutput ==
    /\ (called \in Checks /\ raised # "none")
       => /\ pc = "exit"
          /\ exit_status = "1"
          /\ Destination = dest0
          /\ ~install
    /\ (called \in Checks \cup {"none"})
       => /\ pipelineFile = dest0.pipelineFile
          /\ configFiles = dest0.configFiles
          /\ gitignore = dest0.gitignore
          /\ ~install

\* The run was started with --overwrite on a destination that holds an invalid
\* preference file and earlier artifacts; validation has failed.
C20_Witness ==
    /\ pc = "exit"
    /\ exit_status = "1"
    /\ called = "validate_config_file_contents"
    /\ raised = "ValueError"
    /\ command_line_args = {"--overwrite"}
    /\ dest0.prefFile = PrefFileOf(AllFalseLines)
    /\ dest0.pipelineFile.exists
    /\ pipelineFile = PipelineFileOf(ExistingPipelineText)

-----------------------------------------------------------------------------
\* A call of run_pre_commit_install has ended, by return or by exception.
InstallEnded == called = "run_pre_commit_install" /\ ~awaiting.active

\* skip_pre_commit_install is set.
SkipSet(ns) ==
    "skip_pre_commit_install" \in DOMAIN ns /\ ns["skip_pre_commit_install"] = PyTrue

\* The text without the whitespace before its first and after its last piece
\* that is not whitespace.
Trimmed(text) ==
    LET solid == {i \in 1..Len(text) : text[i] \notin Whitespace}
    IN IF solid = {} THEN <<>>
       ELSE SubSeq(text, CHOOSE i \in solid : \A j \in solid : i <= j,
                         CHOOSE i \in solid : \A j \in solid : i >= j)

\* The process was started once, in the destination, and has exited; the call
\* returned iff the status was 0 and else raised RuntimeError with the output.
StartedOnceAndReported ==
    /\ process.starts = 1
    /\ process.state = "exited"
    /\ process.cwd = (IF _get_dest(args) = "." THEN cwd ELSE _get_dest(args))
    /\ raised = "none" <=> process.returncode = "0"
    /\ process.returncode # "0"
           => (raised = "RuntimeError" /\ exit_messages = Trimmed(process.stdout))

\* C21: when a call of run_pre_commit_install has ended, then with
\* skip_pre_commit_install set no process was started and the call returned;
\* otherwise the process was started exactly once in the destination, the
\* call returned if and only if the process exited with status 0, and on
\* another status it raised RuntimeError with the captured output as message.
C21_InstallOutcome ==
    InstallEnded
    => IF SkipSet(args)
       THEN process.starts = 0 /\ raised = "none"
       ELSE StartedOnceAndReported

\* C21 as the code has it: without skip_pre_commit_install the call may also
\* end before any process is started, with AssertionError when the executable
\* is not found, FileNotFoundError when the destination cannot be entered, or
\* OSError when the process cannot be created; in every other case the
\* outcome is the one above, the message being the standard output without
\* surrounding whitespace.
C21_InstallOutcomeIfStarted ==
    InstallEnded
    => IF SkipSet(args)
       THEN process.starts = 0 /\ raised = "none"
       ELSE \/ /\ raised \in {"AssertionError", "FileNotFoundError", "OSError"}
               /\ process.starts = 0
            \/ StartedOnceAndReported

\* `pre-commit install` ran in a destination other than the working directory
\* and failed: RuntimeError with the two lines of its output.
C21_Witness ==
    /\ InstallEnded
    /\ args = [a \in {"dest"} |-> DestDir]
    /\ process.starts = 1
    /\ process.cwd = DestDir
    /\ process.returncode = "1"
    /\ raised = "RuntimeError"
    /\ exit_messages = <<"An error has occurred: FatalError: git failed.", "\n",
                         "Check the log at ~/.cache/pre-commit/pre-commit.log">>

-----------------------------------------------------------------------------
\* C22: a call of run_pre_commit_install that has started the process and
\* waits for it always eventually ends.
C22_BoundedWait == awaiting.active ~> ~awaiting.active

-----------------------------------------------------------------------------
\* C26: whenever a call of run_pre_commit_install has ended, the working
\* directory is the one the process had before the call.  (Every call up to
\* the first one that breaks this starts in OriginalCwd.)
C26_CwdUnchanged == InstallEnded => cwd = OriginalCwd


-----------------------------------------------------------------------------
(* Hook metadata.                                                          *)

Paired(fields) == (fields.config_file_name = None) <=> (fields.config = None)

\* C23: constructing a PreCommitHookMetadata with exactly one of
\* config_file_name and config set fails with RuntimeError, and with both or
\* neither set it succeeds; so every entry of the registry, and every
\* constructed metadata a consumer reads a config_file_name from, has both a
\* file name and contents or neither.
C23_MetadataPairing ==
    /\ \A hook_name \in Range(RegistryNames) : Paired(registry[hook_name])
    /\ metadata.state = "failed"
       => raised = "RuntimeError" /\ ~Paired(metadata.fields)
    /\ metadata.state = "constructed"
       => /\ raised = "none"
          /\ Paired(metadata.fields)
          /\ metadata.fields.config_file_name # None
             => metadata.fields.config # None

\* A construction with a file name (here the empty string) and no contents
\* has failed.
C23_Witness ==
    /\ metadata.state = "failed"
    /\ metadata.fields.config_file_name # None
    /\ metadata.fields.config = None

-----------------------------------------------------------------------------
(* The entries the docstring of validate_config_file_contents requires.    *)

\* C24: a document that omits check-yaml or check-xml, or sets either of
\* them to a value other than true, is rejected with ValueError.
C24_CheckYamlXmlRequired ==
    Validated =>
        ((\E key \in {"check-yaml", "check-xml"} :
              key \notin Keys(Document) \/ Item(Document, key) # PyTrue)
         => raised = "ValueError")

-----------------------------------------------------------------------------
(* Creation against remediation.                                           *)

\* C25: for every args namespace, the set of `name: value` lines in the
\* FileNotFoundError message of _print_instructions_and_exit equals the set
\* of lines _create_config_file writes for the same args.
C25_CreationAgreesWithRemediation ==
    (called = "create_or_report_missing_config_file" /\ raised = "FileNotFoundError")
    => Range(instructions) = Range(CreateConfigFileLines(args))

-----------------------------------------------------------------------------
(* Unacceptable preference documents.                                      *)

\* C27: for every content of the preference file, the empty file included,
\* validate_config_file_contents returns or raises ValueError, and a run of
\* generate_pre_commit_conf that ends in it ends with the validation message,
\* never with an exception of another type.
C27_OnlyValidationErrors ==
    (called = "validate_config_file_contents" /\ prefFile.exists)
    => raised \in {"none", "ValueError"}

-----------------------------------------------------------------------------
(* The legacy command and .gitignore.                                      *)

\* The names modify_pyproject wants in .gitignore.
LegacyEntries(mypy) ==
    {PRE_COMMIT_CONFIG_FILE_NAME, FLAKE8_CONFIG_FILE_NAME, ISORT_CONFIG_FILE_NAME}
        \cup (IF mypy THEN {MYPY_CONFIG_FILE_NAME} ELSE {})

\* The piece at place i is a line of its own.
OwnLine(contents, i) ==
    /\ i = 1 \/ contents[i - 1] = "\n"
    /\ i < Len(contents) /\ contents[i + 1] = "\n"

\* C28: modify_pyproject only appends to .gitignore: for every prior content,
\* also one that does not end in a newline, the prior lines are unchanged
\* (what is appended starts on a new line) and each entry that was missing
\* is on a line of its own after them.
C28_LegacyAppendOnly ==
    [][(called' = "modify_pyproject" /\ raised' = "none")
       => LET prior == gitignore.contents
              new == gitignore'.contents
          IN /\ gitignore'.exists
             /\ Len(new) >= Len(prior)
             /\ SubSeq(new, 1, Len(prior)) = prior
             /\ (prior # <<>> /\ prior[Len(prior)] # "\n" /\ Len(new) > Len(prior))
                => new[Len(prior) + 1] = "\n"
             /\ \A name \in LegacyEntries(Truthy(args["mypy"])) :
                  ~In(name, prior)
                  => \E i \in (Len(prior) + 1)..Len(new) :
                        new[i] = name /\ OwnLine(new, i)]_vars


=============================================================================
